---- MODULE Spec2Model ----
(***************************************************************************)
(* Model of the ohmygpu daemon's model lifecycle manager (AppState), the   *)
(* candle runtime (CandleRuntime) and the text generation loops            *)
(* (LoadedModel::generate / generate_stream), together with the HTTP       *)
(* handlers that drive them.                                               *)
(***************************************************************************)
EXTENDS Naturals, Integers, Sequences, FiniteSets, TLC

\* ------------------------------------------------------------------ bounds
\* Largest max_tokens a request may ask for.
MaxTokens == 2
\* Number of handler calls the client tasks make in total.
MaxCalls == 2
\* Capacity of the token channel created by chat_stream.
ChanCap == 100
\* Largest number of denoising steps an image request may ask for.
MaxSteps == 2
\* The spatial compression factor image dimensions must be divisible by.
VaeAlign == 16
\* Number of logits vectors a sampler is fed, and their length.
MaxSamples == 2
VocabSize == 3
\* exp() is kept to ExpBits binary digits and a random draw to RandBits.
ExpBits == 8
RandBits == 12
\* Width of Sampler.rng_state.
RngWidth == 64
\* The floor Sampler::new puts under the temperature, in thousandths.
TemperatureMin == 1

\* ---------------------------------------------------------------- universe
\* Client tasks of the two-task specifications, and of the three-task one.
Tasks == {"t1", "t2", "t3"}
Pair == {"t1", "t2"}
\* The producer task spawned by the chat_stream call of a client task.
Prod(t) == CASE t = "t1" -> "p1" [] t = "t2" -> "p2" [] t = "t3" -> "p3"
Producers == {Prod(t) : t \in Tasks}
Procs == Tasks \cup Producers
\* Model names a request may carry; only those of Registry are registered.
Registry == {"A", "B"}
ReqNames == {"A", "B", "X"}
None == "none"
LockNames == {"rt", "cm", "ml"}
\* Image requests handed to one ZImagePipeline.
ImgReqs == {"r1", "r2"}

\* f32 values: a finite number (kept as an integer count of tenths), a NaN or
\* an infinity. Comparisons with a NaN are false, as in IEEE 754.
Fin(v) == [k |-> "fin", v |-> v]
NaN == [k |-> "nan", v |-> 0]
NegInf == [k |-> "ninf", v |-> 0]
Gt(a, b) ==
    /\ a.k = "fin"
    /\ \/ b.k = "ninf"
       \/ b.k = "fin" /\ a.v > b.v

\* ImageGenRequest: the requests the image specifications draw from.
Dimensions == {1000, 1024}
GuidanceScales == {Fin(5), Fin(10), Fin(50), NaN}
NegativePrompts == {"none", "empty", "text"}
Seeds == {None, "s1", "s2"}
ImageGenRequests ==
    [width : Dimensions, height : Dimensions, steps : 0..MaxSteps,
     guidance_scale : GuidanceScales, negative_prompt : NegativePrompts,
     seed : Seeds]

\* Token ids of the loaded tokenizer, a byte-level vocabulary: the
\* end-of-sequence token, a token of one ASCII character, and the tokens that
\* hold the two halves of a two-byte and of a four-byte character.
EosId == 0
TokenIds == 0..5
\* The bytes a token stands for: "a", U+00E9 split as C3 | A9, and U+1F600
\* split as F0 9F | 98 80; the end-of-sequence token is a special token.
TokenBytes(id) ==
    CASE id = 1 -> <<97>>
      [] id = 2 -> <<195>>
      [] id = 3 -> <<169>>
      [] id = 4 -> <<240, 159>>
      [] id = 5 -> <<152, 128>>
      [] OTHER -> <<>>
\* U+FFFD REPLACEMENT CHARACTER, in UTF-8.
Replacement == <<239, 191, 189>>
AsciiId == 1
\* The prompt's ids.
PromptIds == <<AsciiId>>
\* The inputs of one generation before it is chosen, and the locals of
\* generate and generate_stream before they run.
NoInput == [max_tokens |-> 0, eos_token_id |-> {}, sampled |-> <<>>]
NoGenerate ==
    [pc |-> "idle", all_tokens |-> <<>>, generated |-> 0,
     finish_reason |-> "length", fwd |-> 0, text |-> <<>>, res |-> None]
NoStream ==
    [pc |-> "idle", all_tokens |-> <<>>, prev_text_len |-> 0, fwd |-> 0,
     current_text |-> <<>>, sent |-> <<>>, res |-> None]

\* A u64 value is kept as the set of the positions of its 1 bits, position 0
\* being the lowest.
Bits(n) == {i \in 0..30 : (n \div 2^i) % 2 = 1}
\* What a sampler has returned before its first sample.
NoToken == [k |-> "none", id |-> 0]
\* The two Sampler instances, and one before Sampler::new.
SamplerIds == {1, 2}
NoSampler ==
    [pc |-> "none", temperature |-> Fin(1000), top_p |-> Fin(10),
     rng_seed |-> Bits(0), rng_state |-> Bits(0), n |-> 0, tok |-> NoToken]

\* The two streaming chat adapters, and one before its request.
Apis == {"openai", "ollama"}
NoAdapter ==
    [pc |-> "idle", api |-> "openai", ready |-> FALSE, read |-> 0,
     events |-> <<>>]

\* The random state of a device: the seed it was set to last (None before
\* any set_seed) and the number of draws made from it since.
Reseeded(seed) == [seed |-> seed, drawn |-> 0]
AfterDraw(state) == [state EXCEPT !.drawn = @ + 1]

\* An image request slot before its generate call; the noise is the set of
\* the device states it was drawn from.
NoImage ==
    [pc |-> "idle",
     req |-> [width |-> 1024, height |-> 1024, steps |-> 0,
              guidance_scale |-> Fin(50), negative_prompt |-> "none",
              seed |-> None],
     encFwd |-> 0, trFwd |-> <<>>, vaeFwd |-> 0, step |-> 0,
     neg |-> FALSE, noise |-> {}, res |-> None]

VARIABLES
    status,      \* CandleRuntime.status
    model,       \* CandleRuntime.model: the loaded weights, or None
    config,      \* CandleRuntime.config: the model path, or None
    current,     \* AppState.current_model
    locks,       \* the three tokio RwLocks: runtime, current_model, model
    pc,          \* position of every client task and every producer task
    op,          \* the handler a client task is running
    name,        \* the model name of its request
    maxTok,      \* max_tokens of its request
    res,         \* outcome of its last call
    calls,       \* handler calls made so far
    loadCalls,   \* Runtime::load invocations, per model name
    lastOp,      \* the last Runtime operation and how it ended
    fwd,         \* forward passes run by the task's current generation
    gen,         \* tokens pushed on all_tokens by the current generation
    fin,         \* finish_reason chosen by the current chat() call
    chan,        \* the mpsc channel of the task's chat_stream call
    rxAlive,     \* whether the receiver of that channel still exists
    lastFin,     \* finish_reason of the last ChatToken the consumer received
    fwdAfterDrop,\* forward passes started after the receiver was dropped
    conc,        \* whether a call was started while another was running
    img,         \* the image requests running ZImagePipeline::generate
    scheduler,   \* ZImagePipeline.scheduler: the mutex and the scheduler in it
    device,      \* the random state of the device the pipeline runs on
    genIn,       \* a generation's inputs: max_tokens, EOS id, the sampled ids
    genRun,      \* the locals and the result of LoadedModel::generate
    strRun,      \* the locals of LoadedModel::generate_stream, and its tokens
    cache,       \* the decode cache of the loaded model: who wrote into it
    samplers,    \* two Sampler instances
    fed,         \* the logits vector the samplers are fed, and its number
    adp          \* a streaming HTTP adapter: its position and its events

coreVars == <<status, model, config, current, locks, pc, op, name, maxTok, res,
              calls, loadCalls, lastOp, fwd, gen, fin, chan, rxAlive, lastFin,
              fwdAfterDrop, conc>>
imgVars == <<img, scheduler, device>>

txtVars == <<genIn, genRun, strRun>>

smpVars == <<samplers, fed>>

vars == <<coreVars, imgVars, txtVars, cache, smpVars, adp>>

rtVars == <<status, model, config, loadCalls, lastOp>>
reqVars == <<op, name, maxTok>>
genVars == <<fwd, gen, fin>>
strVars == <<chan, rxAlive, lastFin, fwdAfterDrop>>

\* ------------------------------------------------------- tokio::sync::RwLock
\* A lock is its writer, its readers and the FIFO queue of waiting requests.
FreeLock == [w |-> None, r |-> {}, q |-> <<>>]

Compatible(L, l, mode) ==
    IF mode = "r" THEN L[l].w = None
    ELSE L[l].w = None /\ L[l].r = {}

Queued(L, l, p) == \E i \in 1..Len(L[l].q) : L[l].q[i][1] = p

\* The request of p is granted: at once when nobody waits, or in its turn.
CanGrant(L, l, p, mode) ==
    /\ Compatible(L, l, mode)
    /\ IF Queued(L, l, p) THEN Head(L[l].q)[1] = p ELSE L[l].q = <<>>

Granted(L, l, p, mode) ==
    LET q2 == IF Queued(L, l, p) THEN Tail(L[l].q) ELSE L[l].q
    IN  IF mode = "r"
        THEN [L EXCEPT ![l] = [w |-> L[l].w, r |-> L[l].r \cup {p}, q |-> q2]]
        ELSE [L EXCEPT ![l] = [w |-> p, r |-> L[l].r, q |-> q2]]

MustWait(L, l, p, mode) == ~Queued(L, l, p) /\ ~CanGrant(L, l, p, mode)

Enqueued(L, l, p, mode) == [L EXCEPT ![l].q = Append(@, <<p, mode>>)]

\* Dropping a guard, or abandoning a pending request.
Released(L, l, p) ==
    [L EXCEPT ![l] =
        [w |-> IF L[l].w = p THEN None ELSE L[l].w,
         r |-> L[l].r \ {p},
         q |-> SelectSeq(L[l].q, LAMBDA e : e[1] # p)]]

Holds(L, l, p) == L[l].w = p \/ p \in L[l].r

\* p, at position `at`, awaits lock l in `mode` and continues at `next`.
LockAt(p, at, l, mode, next) ==
    /\ pc[p] = at
    /\ \/ /\ CanGrant(locks, l, p, mode)
          /\ locks' = Granted(locks, l, p, mode)
          /\ pc' = [pc EXCEPT ![p] = next]
       \/ /\ MustWait(locks, l, p, mode)
          /\ locks' = Enqueued(locks, l, p, mode)
          /\ pc' = pc
    /\ UNCHANGED <<rtVars, current, reqVars, res, calls, genVars, strVars, conc>>

\* ---------------------------------------------------------------- initial
Init ==
    /\ status = "Unloaded"
    /\ model = None
    /\ config = None
    /\ current = None
    /\ locks = [l \in LockNames |-> FreeLock]
    /\ pc = [p \in Procs |-> IF p \in Tasks THEN "idle" ELSE "p_none"]
    /\ op = [t \in Tasks |-> None]
    /\ name = [t \in Tasks |-> None]
    /\ maxTok = [t \in Tasks |-> 0]
    /\ res = [t \in Tasks |-> None]
    /\ calls = 0
    /\ loadCalls = [n \in Registry |-> 0]
    /\ lastOp = "new"
    /\ fwd = [t \in Tasks |-> 0]
    /\ gen = [t \in Tasks |-> 0]
    /\ fin = [t \in Tasks |-> None]
    /\ chan = [t \in Tasks |-> <<>>]
    /\ rxAlive = [t \in Tasks |-> FALSE]
    /\ lastFin = [t \in Tasks |-> None]
    /\ fwdAfterDrop = [t \in Tasks |-> 0]
    /\ conc = FALSE
    /\ img = [r \in ImgReqs |-> NoImage]
    /\ scheduler = [owner |-> None, timesteps |-> 0, index |-> 0]
    /\ device = Reseeded(None)
    /\ genIn = NoInput
    /\ genRun = NoGenerate
    /\ strRun = NoStream
    /\ cache = {}
    /\ samplers = [i \in SamplerIds |-> NoSampler]
    /\ fed = [n |-> 0, logits |-> [i \in 1..VocabSize |-> Fin(0)]]
    /\ adp = NoAdapter

\* ------------------------------------------------------------ client tasks
Active(t) == pc[t] # "idle"

\* A client task makes its next call: load_model(n), unload_model(), or a
\* chat request for model n with max_tokens m, streamed or not. A task whose
\* last stream left a producer running waits for it, so that a task has at
\* most one producer; `budget` bounds the calls made in total.
Start(t, o, n, m, budget) ==
    /\ pc[t] = "idle"
    /\ calls < budget
    /\ pc[Prod(t)] \in {"p_none", "p_done"}
    /\ calls' = calls + 1
    /\ op' = [op EXCEPT ![t] = o]
    /\ name' = [name EXCEPT ![t] = n]
    /\ maxTok' = [maxTok EXCEPT ![t] = m]
    /\ res' = [res EXCEPT ![t] = None]
    /\ pc' = [pc EXCEPT ![t] = IF o = "unload" THEN "um_rt_lock" ELSE "lm_cur_lock",
                        ![Prod(t)] = "p_none"]
    /\ fwd' = [fwd EXCEPT ![t] = 0]
    /\ gen' = [gen EXCEPT ![t] = 0]
    /\ fin' = [fin EXCEPT ![t] = None]
    /\ chan' = [chan EXCEPT ![t] = <<>>]
    /\ rxAlive' = [rxAlive EXCEPT ![t] = FALSE]
    /\ lastFin' = [lastFin EXCEPT ![t] = None]
    /\ fwdAfterDrop' = [fwdAfterDrop EXCEPT ![t] = 0]
    /\ conc' = (conc \/ \E u \in Tasks \ {t} : Active(u))
    /\ UNCHANGED <<rtVars, current, locks>>

\* The calls a specification lets the client tasks make.
LoadCalls == {[o |-> "load", n |-> n, m |-> 0] : n \in ReqNames}
UnloadCalls == {[o |-> "unload", n |-> None, m |-> 0]}
ChatCalls(ms) == {[o |-> "chat", n |-> n, m |-> m] : n \in Registry, m \in ms}
StreamCalls(ms) == {[o |-> "stream", n |-> n, m |-> m] : n \in Registry, m \in ms}

StartAny(t, menu, budget) == \E c \in menu : Start(t, c.o, c.n, c.m, budget)

\* Where a handler goes on after its load_model call returned Ok.
AfterLoad(t) ==
    CASE op[t] = "load" -> "idle"
      [] op[t] = "chat" -> "ch_rt_lock"
      [] op[t] = "stream" -> "st_rt_lock"

LoadOkRes(t) == IF op[t] = "load" THEN "Ok" ELSE res[t]

\* ------------------------------------------------- AppState::load_model
\* let current = self.current_model.read().await;
LmCurLock(t) == LockAt(t, "lm_cur_lock", "cm", "r", "lm_cur_chk")

\* if current.as_deref() == Some(model_name) { runtime.read() ... }; a call
\* that leaves the block looks the name up in the registry (the daemon only
\* ever reads the registry lock, so the lookup never waits).
\* A lookup that finds every name.
InRegistryAny(n) == n \in ReqNames

\* registry.get(model_name): Some for a registered name.
InRegistry(n) == n \in Registry

LmCurChk(t) ==
    /\ pc[t] = "lm_cur_chk"
    /\ IF current = name[t]
       THEN /\ pc' = [pc EXCEPT ![t] = "lm_fast_lock"]
            /\ UNCHANGED <<locks, res>>
       ELSE /\ locks' = Released(locks, "cm", t)
            /\ IF InRegistry(name[t])
               THEN pc' = [pc EXCEPT ![t] = "lm_ul_lock"] /\ res' = res
               ELSE pc' = [pc EXCEPT ![t] = "idle"]
                    /\ res' = [res EXCEPT ![t] = "NotFound"]
    /\ UNCHANGED <<rtVars, current, reqVars, calls, genVars, strVars, conc>>

\* let runtime = self.runtime.read().await;  (current is still held)
LmFastLock(t) == LockAt(t, "lm_fast_lock", "rt", "r", "lm_fast_chk")

\* A fast path that gives up the read guards and reloads in every case.
LmFastChkReload(t) ==
    /\ pc[t] = "lm_fast_chk"
    /\ locks' = Released(Released(locks, "rt", t), "cm", t)
    /\ pc' = [pc EXCEPT ![t] = "lm_ul_lock"]
    /\ UNCHANGED <<rtVars, current, reqVars, res, calls, genVars, strVars, conc>>

\* if runtime.status() == RuntimeStatus::Ready { return Ok(()) }
LmFastChk(t) ==
    /\ pc[t] = "lm_fast_chk"
    /\ locks' = Released(Released(locks, "rt", t), "cm", t)
    /\ IF status = "Ready"
       THEN /\ pc' = [pc EXCEPT ![t] = AfterLoad(t)]
            /\ res' = [res EXCEPT ![t] = LoadOkRes(t)]
       ELSE IF InRegistry(name[t])
       THEN pc' = [pc EXCEPT ![t] = "lm_ul_lock"] /\ res' = res
       ELSE pc' = [pc EXCEPT ![t] = "idle"]
            /\ res' = [res EXCEPT ![t] = "NotFound"]
    /\ UNCHANGED <<rtVars, current, reqVars, calls, genVars, strVars, conc>>

\* { let mut runtime = self.runtime.write().await;
LmUlLock(t) == LockAt(t, "lm_ul_lock", "rt", "w", "lm_ul_chk")

\*   if runtime.status() == RuntimeStatus::Ready { runtime.unload().await?; } }
LmUlChk(t) ==
    /\ pc[t] = "lm_ul_chk"
    /\ IF status = "Ready"
       THEN pc' = [pc EXCEPT ![t] = "lm_ul_ml"] /\ locks' = locks
       ELSE pc' = [pc EXCEPT ![t] = "lm_ld_lock"]
            /\ locks' = Released(locks, "rt", t)
    /\ UNCHANGED <<rtVars, current, reqVars, res, calls, genVars, strVars, conc>>

\* An unload that assigns the model slot without waiting for its lock.
UnloadNoWait(t, at, next) ==
    /\ pc[t] = at
    /\ pc' = [pc EXCEPT ![t] = next]
    /\ UNCHANGED <<rtVars, current, locks, reqVars, res, calls, genVars,
                   strVars, conc>>

\* CandleRuntime::unload: *self.model.write().await = None; ...
UnloadLock(t, at, next) == LockAt(t, at, "ml", "w", next)

\* An unload that takes an empty model slot for a failure.
UnloadBodyOnce(t) ==
    /\ model' = None
    /\ config' = None
    /\ status' = IF model = None THEN "Error" ELSE "Unloaded"
    /\ lastOp' = "unloaded"
    /\ loadCalls' = loadCalls

\* An unload that leaves the stored config in place.
UnloadBodyKeepsConfig(t) ==
    /\ model' = None
    /\ config' = config
    /\ status' = "Unloaded"
    /\ lastOp' = "unloaded"
    /\ loadCalls' = loadCalls

\* The three assignments of CandleRuntime::unload, with the model guard.
UnloadBody(t) ==
    /\ model' = None
    /\ config' = None
    /\ status' = "Unloaded"
    /\ lastOp' = "unloaded"
    /\ loadCalls' = loadCalls

LmUlMl(t) == UnloadLock(t, "lm_ul_ml", "lm_ul_do")

LmUlDo(t) ==
    /\ pc[t] = "lm_ul_do"
    /\ UnloadBody(t)
    /\ locks' = Released(Released(locks, "ml", t), "rt", t)
    /\ pc' = [pc EXCEPT ![t] = "lm_ld_lock"]
    /\ UNCHANGED <<current, reqVars, res, calls, genVars, strVars, conc>>

\* { let mut runtime = self.runtime.write().await;
LmLdLock(t) == LockAt(t, "lm_ld_lock", "rt", "w", "lm_ld_begin")

\* CandleRuntime::load up to the end of the blocking load task: the status
\* becomes Loading; get_device or LoadedModel::load may fail, and `?` then
\* returns the error through load_model, which drops the runtime guard.
LoadBegin(t, ok) ==
    /\ status' = "Loading"
    /\ loadCalls' = [loadCalls EXCEPT ![name[t]] = @ + 1]
    /\ lastOp' = IF ok THEN "loading" ELSE "load_err"
    /\ UNCHANGED <<model, config>>

\* A load block that goes back to the runtime writer after a failed load.
LmLdBeginRetry(t) ==
    /\ pc[t] = "lm_ld_begin"
    /\ \E ok \in BOOLEAN :
         /\ LoadBegin(t, ok)
         /\ IF ok
            THEN /\ pc' = [pc EXCEPT ![t] = "lm_ld_ml"]
                 /\ UNCHANGED <<locks, res>>
            ELSE /\ pc' = [pc EXCEPT ![t] = "lm_ld_lock"]
                 /\ locks' = Released(locks, "rt", t)
                 /\ res' = res
    /\ UNCHANGED <<current, reqVars, calls, genVars, strVars, conc>>

LmLdBegin(t) ==
    /\ pc[t] = "lm_ld_begin"
    /\ \E ok \in BOOLEAN :
         /\ LoadBegin(t, ok)
         /\ IF ok
            THEN /\ pc' = [pc EXCEPT ![t] = "lm_ld_ml"]
                 /\ UNCHANGED <<locks, res>>
            ELSE /\ pc' = [pc EXCEPT ![t] = "idle"]
                 /\ locks' = Released(locks, "rt", t)
                 /\ res' = [res EXCEPT ![t] = "LoadErr"]
    /\ UNCHANGED <<current, reqVars, calls, genVars, strVars, conc>>

\*   *self.model.write().await = Some(loaded);
LmLdMl(t) == LockAt(t, "lm_ld_ml", "ml", "w", "lm_ld_fin")

\*   self.config = Some(config); self.status = RuntimeStatus::Ready; }
LoadFinish(t) ==
    /\ model' = name[t]
    /\ config' = name[t]
    /\ status' = "Ready"
    /\ lastOp' = "load_ok"
    /\ loadCalls' = loadCalls

LmLdFin(t) ==
    /\ pc[t] = "lm_ld_fin"
    /\ LoadFinish(t)
    /\ locks' = Released(Released(locks, "ml", t), "rt", t)
    /\ pc' = [pc EXCEPT ![t] = "lm_set_lock"]
    /\ UNCHANGED <<current, reqVars, res, calls, genVars, strVars, conc>>

\* { let mut current = self.current_model.write().await;
LmSetLock(t) == LockAt(t, "lm_set_lock", "cm", "w", "lm_set")

\*   *current = Some(model_name.to_string()); }  Ok(())
LmSet(t) ==
    /\ pc[t] = "lm_set"
    /\ current' = name[t]
    /\ locks' = Released(locks, "cm", t)
    /\ pc' = [pc EXCEPT ![t] = AfterLoad(t)]
    /\ res' = [res EXCEPT ![t] = LoadOkRes(t)]
    /\ UNCHANGED <<rtVars, reqVars, calls, genVars, strVars, conc>>

LoadModel(t) ==
    \/ LmCurLock(t) \/ LmCurChk(t) \/ LmFastLock(t) \/ LmFastChk(t)
    \/ LmUlLock(t) \/ LmUlChk(t) \/ LmUlMl(t) \/ LmUlDo(t)
    \/ LmLdLock(t) \/ LmLdBegin(t) \/ LmLdMl(t) \/ LmLdFin(t)
    \/ LmSetLock(t) \/ LmSet(t)

\* ------------------------------------------------ AppState::unload_model
UmRtLock(t) == LockAt(t, "um_rt_lock", "rt", "w", "um_chk")

UmChk(t) ==
    /\ pc[t] = "um_chk"
    /\ pc' = [pc EXCEPT ![t] = IF status = "Ready" THEN "um_ml" ELSE "um_cm_lock"]
    /\ UNCHANGED <<rtVars, current, locks, reqVars, res, calls, genVars,
                   strVars, conc>>

UmMl(t) == UnloadLock(t, "um_ml", "um_do")

UmDo(t) ==
    /\ pc[t] = "um_do"
    /\ UnloadBody(t)
    /\ locks' = Released(locks, "ml", t)
    /\ pc' = [pc EXCEPT ![t] = "um_cm_lock"]
    /\ UNCHANGED <<current, reqVars, res, calls, genVars, strVars, conc>>

\* let mut current = self.current_model.write().await;  (runtime still held)
UmCmLock(t) == LockAt(t, "um_cm_lock", "cm", "w", "um_set")

UmSet(t) ==
    /\ pc[t] = "um_set"
    /\ current' = None
    /\ locks' = Released(Released(locks, "cm", t), "rt", t)
    /\ pc' = [pc EXCEPT ![t] = "idle"]
    /\ res' = [res EXCEPT ![t] = "Ok"]
    /\ UNCHANGED <<rtVars, reqVars, calls, genVars, strVars, conc>>

UnloadModel(t) ==
    \/ UmRtLock(t) \/ UmChk(t) \/ UmMl(t) \/ UmDo(t) \/ UmCmLock(t) \/ UmSet(t)

\* ------------------------------------- the Runtime trait, called directly
\* A caller that owns the runtime (&mut self) calls Runtime::load and
\* Runtime::unload in any order, whatever the status is.
RtStart(t, budget) ==
    /\ pc[t] = "idle"
    /\ calls < budget
    /\ \E n \in Registry :
         /\ name' = [name EXCEPT ![t] = n]
         /\ op' = [op EXCEPT ![t] = "rt_load"]
    /\ pc' = [pc EXCEPT ![t] = "rt_ld_begin"]
    /\ calls' = calls + 1
    /\ res' = [res EXCEPT ![t] = None]
    /\ UNCHANGED <<rtVars, current, locks, maxTok, genVars, strVars, conc>>

RtLoadBegin(t) ==
    /\ pc[t] = "rt_ld_begin"
    /\ \E ok \in BOOLEAN :
         /\ LoadBegin(t, ok)
         /\ IF ok
            THEN pc' = [pc EXCEPT ![t] = "rt_ld_fin"] /\ res' = res
            ELSE /\ pc' = [pc EXCEPT ![t] = "idle"]
                 /\ res' = [res EXCEPT ![t] = "LoadErr"]
    /\ UNCHANGED <<current, locks, reqVars, calls, genVars, strVars, conc>>

RtLoadFin(t) ==
    /\ pc[t] = "rt_ld_fin"
    /\ LoadFinish(t)
    /\ pc' = [pc EXCEPT ![t] = "idle"]
    /\ res' = [res EXCEPT ![t] = "Ok"]
    /\ UNCHANGED <<current, locks, reqVars, calls, genVars, strVars, conc>>

\* runtime.unload().await: nobody else holds the model lock.
RtUnload(t, budget) ==
    /\ pc[t] = "idle"
    /\ calls < budget
    /\ UnloadBody(t)
    /\ op' = [op EXCEPT ![t] = "rt_unload"]
    /\ calls' = calls + 1
    /\ res' = [res EXCEPT ![t] = "Ok"]
    /\ UNCHANGED <<current, locks, pc, name, maxTok, genVars, strVars, conc>>

\* ------------------------------- chat_completions_non_stream / chat_non_stream
\* let runtime = state.runtime.read().await;
ChRtLock(t) == LockAt(t, "ch_rt_lock", "rt", "r", "ch_chk")

\* A status check that lets a runtime that is still loading through.
ChatReadyLoose == status \in {"Ready", "Loading"}

\* CandleRuntime::chat: if self.status != RuntimeStatus::Ready { bail!(..) }
ChatReady == status = "Ready"

ChChk(t) ==
    /\ pc[t] = "ch_chk"
    /\ IF ChatReady
       THEN /\ pc' = [pc EXCEPT ![t] = "ch_ml_lock"]
            /\ UNCHANGED <<locks, res>>
       ELSE /\ pc' = [pc EXCEPT ![t] = "idle"]
            /\ locks' = Released(locks, "rt", t)
            /\ res' = [res EXCEPT ![t] = "NotLoaded"]
    /\ UNCHANGED <<rtVars, current, reqVars, calls, genVars, strVars, conc>>

\* let model_guard = self.model.read().await;
ChMlLock(t) == LockAt(t, "ch_ml_lock", "ml", "r", "ch_gen")

\* The call fails: the guards are dropped and the handler answers the error.
ChFail(t, r) ==
    /\ pc' = [pc EXCEPT ![t] = "idle"]
    /\ locks' = Released(Released(locks, "ml", t), "rt", t)
    /\ res' = [res EXCEPT ![t] = r]

\* model_guard.as_ref().ok_or_else(..)?, then LoadedModel::generate up to the
\* loop: tokenizer.encode may fail; finish_reason starts as "length".
ChGen(t) ==
    /\ pc[t] = "ch_gen"
    /\ IF model = None
       THEN ChFail(t, "NotLoaded") /\ fin' = fin
       ELSE \E tokOk \in BOOLEAN :
              IF tokOk
              THEN /\ pc' = [pc EXCEPT ![t] = "ch_loop"]
                   /\ fin' = [fin EXCEPT ![t] = "length"]
                   /\ UNCHANGED <<locks, res>>
              ELSE ChFail(t, "GenErr") /\ fin' = fin
    /\ UNCHANGED <<rtVars, current, reqVars, calls, fwd, gen, strVars, conc>>

\* What one decode step can bring: the forward pass fails, the sampled id is
\* the EOS id, or it is another id whose text is visible or not (yet).
StepOutcomes == {"fail", "eos", "text", "silent"}

\* One iteration of `for _ in 0..max_tokens` in generate, or the loop's end.
ChLoop(t) ==
    /\ pc[t] = "ch_loop"
    /\ IF gen[t] < maxTok[t]
       THEN \E o \in StepOutcomes :
              /\ fwd' = [fwd EXCEPT ![t] = @ + 1]
              /\ CASE o = "fail" ->
                        ChFail(t, "GenErr") /\ UNCHANGED <<gen, fin>>
                   [] o = "eos" ->
                        /\ fin' = [fin EXCEPT ![t] = "stop"]
                        /\ pc' = [pc EXCEPT ![t] = "ch_dec"]
                        /\ UNCHANGED <<gen, locks, res>>
                   [] OTHER ->
                        /\ gen' = [gen EXCEPT ![t] = @ + 1]
                        /\ UNCHANGED <<fin, pc, locks, res>>
       ELSE /\ pc' = [pc EXCEPT ![t] = "ch_dec"]
            /\ UNCHANGED <<fwd, gen, fin, locks, res>>
    /\ UNCHANGED <<rtVars, current, reqVars, calls, strVars, conc>>

\* A decode step that marks the runtime as failed when the decoding fails.
ChDecMarksError(t) ==
    /\ pc[t] = "ch_dec"
    /\ \E decOk \in BOOLEAN :
         /\ ChFail(t, IF decOk THEN "Ok" ELSE "GenErr")
         /\ status' = IF decOk THEN status ELSE "Error"
    /\ UNCHANGED <<model, config, loadCalls, lastOp, current, reqVars, calls,
                   genVars, strVars, conc>>

\* tokenizer.decode(generated_tokens, true), then Ok(GenerationResult {..}).
ChDec(t) ==
    /\ pc[t] = "ch_dec"
    /\ \E decOk \in BOOLEAN : ChFail(t, IF decOk THEN "Ok" ELSE "GenErr")
    /\ UNCHANGED <<rtVars, current, reqVars, calls, genVars, strVars, conc>>

Chat(t) ==
    \/ ChRtLock(t) \/ ChChk(t) \/ ChMlLock(t) \/ ChGen(t) \/ ChLoop(t) \/ ChDec(t)

\* ---------------------------------- chat_completions_stream / chat_stream
\* let runtime_guard = runtime.read().await;   (inside the response stream)
StRtLock(t) == LockAt(t, "st_rt_lock", "rt", "r", "st_call")

\* CandleRuntime::chat_stream: if self.status != RuntimeStatus::Ready { bail! }
StreamReady == status = "Ready"

\* CandleRuntime::chat_stream: the status check, then channel(100) and
\* tokio::spawn of the producer; Ok(rx).
StCall(t) ==
    /\ pc[t] = "st_call"
    /\ IF StreamReady
       THEN /\ pc' = [pc EXCEPT ![t] = "st_recv", ![Prod(t)] = "p_ml_lock"]
            /\ rxAlive' = [rxAlive EXCEPT ![t] = TRUE]
            /\ chan' = [chan EXCEPT ![t] = <<>>]
            /\ UNCHANGED <<locks, res>>
       ELSE /\ pc' = [pc EXCEPT ![t] = "idle"]
            /\ locks' = Released(locks, "rt", t)
            /\ res' = [res EXCEPT ![t] = "NotLoaded"]
            /\ UNCHANGED <<rxAlive, chan>>
    /\ UNCHANGED <<rtVars, current, reqVars, calls, genVars, lastFin,
                   fwdAfterDrop, conc>>

TxAlive(t) == pc[Prod(t)] \notin {"p_none", "p_done"}

\* while let Some(token) = rx.recv().await { yield chunk }; the stream ends
\* when the channel is empty and the sender is gone.
StRecv(t) ==
    /\ pc[t] = "st_recv"
    /\ IF chan[t] # <<>>
       THEN /\ chan' = [chan EXCEPT ![t] = Tail(@)]
            /\ lastFin' = [lastFin EXCEPT ![t] = Head(chan[t]).f]
            /\ UNCHANGED <<pc, locks, res, rxAlive>>
       ELSE /\ ~TxAlive(t)
            /\ pc' = [pc EXCEPT ![t] = "idle"]
            /\ locks' = Released(locks, "rt", t)
            /\ res' = [res EXCEPT ![t] = "StreamEnd"]
            /\ rxAlive' = [rxAlive EXCEPT ![t] = FALSE]
            /\ UNCHANGED <<chan, lastFin>>
    /\ UNCHANGED <<rtVars, current, reqVars, calls, genVars, fwdAfterDrop, conc>>

\* The client goes away: the response stream is dropped wherever it stands,
\* and with it the runtime guard (or the pending request) and the receiver.
Disconnect(t) ==
    /\ pc[t] \in {"st_rt_lock", "st_call", "st_recv", "st_stalled"}
    /\ pc' = [pc EXCEPT ![t] = "idle"]
    /\ locks' = Released(locks, "rt", t)
    /\ rxAlive' = [rxAlive EXCEPT ![t] = FALSE]
    /\ chan' = [chan EXCEPT ![t] = <<>>]
    /\ res' = [res EXCEPT ![t] = "Dropped"]
    /\ UNCHANGED <<rtVars, current, reqVars, calls, genVars, lastFin,
                   fwdAfterDrop, conc>>

\* The client keeps the connection and stops reading: the server no longer
\* polls the response stream, which stays alive with its runtime guard and
\* its receiver, parked in rx.recv().
Stall(t) ==
    /\ pc[t] = "st_recv"
    /\ pc' = [pc EXCEPT ![t] = "st_stalled"]
    /\ UNCHANGED <<rtVars, current, locks, reqVars, res, calls, genVars,
                   strVars, conc>>

Stream(t) == StRtLock(t) \/ StCall(t) \/ StRecv(t)

\* ------------------------------- the producer task spawned by chat_stream
\* let model_guard = model.read().await;
PMlLock(t) == LockAt(Prod(t), "p_ml_lock", "ml", "r", "p_start")

\* The task ends: model_guard and tx are dropped.
PExit(t) ==
    /\ pc' = [pc EXCEPT ![Prod(t)] = "p_done"]
    /\ locks' = Released(locks, "ml", Prod(t))

\* if let Some(loaded_model) = model_guard.as_ref() { generate_stream(..) },
\* up to the loop: tokenizer.encode may fail.
PStart(t) ==
    /\ pc[Prod(t)] = "p_start"
    /\ IF model = None
       THEN PExit(t)
       ELSE \E tokOk \in BOOLEAN :
              IF tokOk
              THEN pc' = [pc EXCEPT ![Prod(t)] = "p_fwd"] /\ locks' = locks
              ELSE PExit(t)
    /\ UNCHANGED <<rtVars, current, reqVars, res, calls, genVars, strVars, conc>>

\* if current_text.len() > prev_text_len { tx.send(delta) }
SendsDelta(o) == o = "text"

\* One iteration of `for i in 0..max_tokens` in generate_stream up to its
\* send, or the loop's end: forward pass, sample, EOS test, push, decode.
PFwd(t) ==
    /\ pc[Prod(t)] = "p_fwd"
    /\ IF gen[t] < maxTok[t]
       THEN \E o \in StepOutcomes, decOk \in BOOLEAN :
              /\ fwd' = [fwd EXCEPT ![t] = @ + 1]
              /\ fwdAfterDrop' = [fwdAfterDrop EXCEPT ![t] =
                                    IF rxAlive[t] THEN @ ELSE @ + 1]
              /\ CASE o = "fail" -> PExit(t) /\ UNCHANGED <<gen, fin>>
                   [] o = "eos" ->
                        /\ decOk
                        /\ pc' = [pc EXCEPT ![Prod(t)] = "p_send_fin"]
                        /\ fin' = [fin EXCEPT ![t] = "stop"]
                        /\ UNCHANGED <<gen, locks>>
                   [] OTHER ->
                        /\ gen' = [gen EXCEPT ![t] = @ + 1]
                        /\ fin' = fin
                        /\ IF ~decOk THEN PExit(t)
                           ELSE IF SendsDelta(o)
                           THEN pc' = [pc EXCEPT ![Prod(t)] = "p_send"]
                                /\ locks' = locks
                           ELSE UNCHANGED <<pc, locks>>
       ELSE /\ pc' = [pc EXCEPT ![Prod(t)] = "p_send_fin"]
            /\ fin' = [fin EXCEPT ![t] = "length"]
            /\ UNCHANGED <<fwd, gen, fwdAfterDrop, locks>>
    /\ UNCHANGED <<rtVars, current, reqVars, res, calls, chan, rxAlive,
                   lastFin, conc>>

\* tx.send(ChatToken { content: delta, finish_reason: None }).await.is_err()
\* returns; a full channel blocks the producer.
PSend(t) ==
    /\ pc[Prod(t)] = "p_send"
    /\ IF ~rxAlive[t]
       THEN PExit(t) /\ chan' = chan
       ELSE /\ Len(chan[t]) < ChanCap
            /\ chan' = [chan EXCEPT ![t] = Append(@, [c |-> "x", f |-> None])]
            /\ pc' = [pc EXCEPT ![Prod(t)] = "p_fwd"]
            /\ locks' = locks
    /\ UNCHANGED <<rtVars, current, reqVars, res, calls, genVars, rxAlive,
                   lastFin, fwdAfterDrop, conc>>

\* let _ = tx.send(ChatToken { content: String::new(), finish_reason:
\* Some(..) }).await; then generate_stream returns Ok(()).
PSendFin(t) ==
    /\ pc[Prod(t)] = "p_send_fin"
    /\ IF ~rxAlive[t]
       THEN chan' = chan
       ELSE /\ Len(chan[t]) < ChanCap
            /\ chan' = [chan EXCEPT ![t] = Append(@, [c |-> "", f |-> fin[t]])]
    /\ PExit(t)
    /\ UNCHANGED <<rtVars, current, reqVars, res, calls, genVars, rxAlive,
                   lastFin, fwdAfterDrop, conc>>

Producer(t) == PMlLock(t) \/ PStart(t) \/ PFwd(t) \/ PSend(t) \/ PSendFin(t)

\* ------------------------------------ ZImagePipeline::generate_internal
\* The request ends with an error: `?` or bail! returns, which drops the
\* scheduler guard when the request holds it.
ImgFail(r, e) ==
    /\ img' = [img EXCEPT ![r].pc = "done", ![r].res = e]
    /\ scheduler' = IF scheduler.owner = r
                    THEN [scheduler EXCEPT !.owner = None]
                    ELSE scheduler

\* A client hands a request, one of reqs, to generate.
ImgStartIn(r, reqs) ==
    /\ img[r].pc = "idle"
    /\ \E q \in reqs :
         img' = [img EXCEPT ![r] = [NoImage EXCEPT !.pc = "seed", !.req = q]]
    /\ UNCHANGED <<scheduler, device>>

ImgStart(r) == ImgStartIn(r, ImageGenRequests)

\* if let Some(seed) = request.seed { self.device.set_seed(seed)?; }
ImgSeed(r) ==
    /\ img[r].pc = "seed"
    /\ IF img[r].req.seed = None
       THEN /\ img' = [img EXCEPT ![r].pc = "encode"]
            /\ UNCHANGED <<scheduler, device>>
       ELSE \E ok \in BOOLEAN :
              IF ok
              THEN /\ device' = Reseeded(img[r].req.seed)
                   /\ img' = [img EXCEPT ![r].pc = "encode"]
                   /\ scheduler' = scheduler
              ELSE ImgFail(r, "BackendError") /\ device' = device

\* Tokenize the formatted prompt, then self.text_encoder.forward(&input_ids)?
ImgEncode(r) ==
    /\ img[r].pc = "encode"
    /\ \E tokOk \in BOOLEAN, fwdOk \in BOOLEAN :
         IF ~tokOk
         THEN ImgFail(r, "TokenizationError")
         ELSE IF ~fwdOk
         THEN /\ img' = [img EXCEPT ![r].pc = "done", ![r].res = "BackendError",
                                    ![r].encFwd = @ + 1]
              /\ scheduler' = scheduler
         ELSE /\ img' = [img EXCEPT ![r].pc = "negative", ![r].encFwd = @ + 1]
              /\ scheduler' = scheduler
    /\ device' = device

\* if !neg_prompt.is_empty() && request.guidance_scale > 1.0
EncodesNegative(q) ==
    q.negative_prompt = "text" /\ Gt(q.guidance_scale, Fin(10))

\* The negative prompt: tokenized and encoded only under EncodesNegative.
ImgNegative(r) ==
    /\ img[r].pc = "negative"
    /\ IF EncodesNegative(img[r].req)
       THEN \E tokOk \in BOOLEAN, fwdOk \in BOOLEAN :
              IF ~tokOk
              THEN ImgFail(r, "TokenizationError")
              ELSE IF ~fwdOk
              THEN /\ img' = [img EXCEPT ![r].pc = "done",
                                         ![r].res = "BackendError",
                                         ![r].encFwd = @ + 1]
                   /\ scheduler' = scheduler
              ELSE /\ img' = [img EXCEPT ![r].pc = "dims", ![r].neg = TRUE,
                                         ![r].encFwd = @ + 1]
                   /\ scheduler' = scheduler
       ELSE /\ img' = [img EXCEPT ![r].pc = "dims", ![r].neg = FALSE]
            /\ scheduler' = scheduler
    /\ device' = device

\* if height % vae_align != 0 || width % vae_align != 0 { bail!(..) }
DimensionsOk(q) == q.height % VaeAlign = 0 /\ q.width % VaeAlign = 0

ImgDims(r) ==
    /\ img[r].pc = "dims"
    /\ IF DimensionsOk(img[r].req)
       THEN img' = [img EXCEPT ![r].pc = "sched_lock"] /\ scheduler' = scheduler
       ELSE ImgFail(r, "InvalidDimensions")
    /\ device' = device

\* A scheduler taken without waiting for the request that is using it.
ImgSchedLockShared(r) ==
    /\ img[r].pc = "sched_lock"
    /\ scheduler' = [owner |-> r, timesteps |-> img[r].req.steps, index |-> 0]
    /\ img' = [img EXCEPT ![r].pc = "noise"]
    /\ device' = device

\* let mut scheduler = self.scheduler.lock().unwrap(); a fresh scheduler is
\* stored and scheduler.set_timesteps(num_steps, Some(mu)) is called.
ImgSchedLock(r) ==
    /\ img[r].pc = "sched_lock"
    /\ scheduler.owner = None
    /\ scheduler' = [owner |-> r, timesteps |-> img[r].req.steps, index |-> 0]
    /\ img' = [img EXCEPT ![r].pc = "noise"]
    /\ device' = device

\* get_noise(1, 16, latent_h, latent_w, &self.device)?: drawn from the random
\* state of the device.
ImgNoise(r) ==
    /\ img[r].pc = "noise"
    /\ \E ok \in BOOLEAN :
         IF ok
         THEN /\ img' = [img EXCEPT ![r].pc = "cond", ![r].noise = {device}]
              /\ device' = AfterDraw(device)
              /\ scheduler' = scheduler
         ELSE ImgFail(r, "BackendError") /\ device' = device

\* if request.guidance_scale > 1.0 { if let (Some(..), Some(..)) = .. }
GuidanceOnLoose(q, neg) == neg \/ Gt(q.guidance_scale, Fin(10))

GuidanceOn(q, neg) == Gt(q.guidance_scale, Fin(10)) /\ neg

\* for _step in 0..num_steps: whether another iteration follows done
\* scheduler steps.
DenoiseRunsOnce(done, num_steps) == done < num_steps + 1

DenoiseRuns(done, num_steps) == done < num_steps

\* The head of the loop: the conditional transformer forward pass, or the end
\* of the loop and drop(scheduler).
ImgCond(r) ==
    /\ img[r].pc = "cond"
    /\ IF DenoiseRuns(img[r].step, img[r].req.steps)
       THEN \E ok \in BOOLEAN :
              IF ok
              THEN /\ img' = [img EXCEPT
                                ![r].trFwd = Append(@, "cond"),
                                ![r].pc = IF GuidanceOn(img[r].req, img[r].neg)
                                          THEN "uncond" ELSE "step"]
                   /\ scheduler' = scheduler
              ELSE /\ img' = [img EXCEPT ![r].trFwd = Append(@, "cond"),
                                         ![r].pc = "done",
                                         ![r].res = "BackendError"]
                   /\ scheduler' = [scheduler EXCEPT !.owner = None]
       ELSE /\ img' = [img EXCEPT ![r].pc = "vae"]
            /\ scheduler' = [scheduler EXCEPT !.owner = None]
    /\ device' = device

\* The second forward pass, on the negative embedding, and the combination.
ImgUncond(r) ==
    /\ img[r].pc = "uncond"
    /\ \E ok \in BOOLEAN :
         IF ok
         THEN /\ img' = [img EXCEPT ![r].trFwd = Append(@, "uncond"),
                                    ![r].pc = "step"]
              /\ scheduler' = scheduler
         ELSE /\ img' = [img EXCEPT ![r].trFwd = Append(@, "uncond"),
                                    ![r].pc = "done", ![r].res = "BackendError"]
              /\ scheduler' = [scheduler EXCEPT !.owner = None]
    /\ device' = device

\* noise_pred.neg()?, then scheduler.step(&noise_pred_4d, &latents_4d)?
ImgStep(r) ==
    /\ img[r].pc = "step"
    /\ \E ok \in BOOLEAN :
         IF ok
         THEN /\ img' = [img EXCEPT ![r].step = @ + 1, ![r].pc = "cond"]
              /\ scheduler' = [scheduler EXCEPT !.index = @ + 1]
         ELSE ImgFail(r, "BackendError")
    /\ device' = device

\* self.vae.decode(&latents)?
ImgVae(r) ==
    /\ img[r].pc = "vae"
    /\ \E ok \in BOOLEAN :
         /\ img' = [img EXCEPT ![r].vaeFwd = @ + 1,
                               ![r].pc = IF ok THEN "post" ELSE "done",
                               ![r].res = IF ok THEN @ ELSE "BackendError"]
    /\ UNCHANGED <<scheduler, device>>

\* postprocess_image and the conversion to pixels, then Ok(ImageGenResponse).
ImgPost(r) ==
    /\ img[r].pc = "post"
    /\ \E ok \in BOOLEAN :
         img' = [img EXCEPT ![r].pc = "done",
                            ![r].res = IF ok THEN "Ok" ELSE "BackendError"]
    /\ UNCHANGED <<scheduler, device>>

GenerateInternal(r) ==
    \/ ImgSeed(r) \/ ImgEncode(r) \/ ImgNegative(r) \/ ImgDims(r)
    \/ ImgSchedLock(r) \/ ImgNoise(r) \/ ImgCond(r) \/ ImgUncond(r)
    \/ ImgStep(r) \/ ImgVae(r) \/ ImgPost(r)

Generate(r) == ImgStart(r) \/ GenerateInternal(r)

\* ------------------------------------------- text of the generated tokens
\* A String is the sequence of its characters, each the sequence of its
\* UTF-8 bytes; len() counts bytes.
RECURSIVE StrLen(_)
StrLen(str) == IF str = <<>> THEN 0 ELSE Len(Head(str)) + StrLen(Tail(str))

\* str[n..]: the rest of str from byte n on, or a panic when byte n is not a
\* character boundary.
RECURSIVE SliceFrom(_, _)
SliceFrom(str, n) ==
    IF n = 0 THEN [ok |-> TRUE, str |-> str]
    ELSE IF str = <<>> \/ Len(Head(str)) > n THEN [ok |-> FALSE, str |-> <<>>]
    ELSE SliceFrom(Tail(str), n - Len(Head(str)))

IsCont(b) == b >= 128 /\ b <= 191

\* The length of the well-formed character at the head of bytes, and of the
\* longest prefix of one when there is none (UTF-8 of one, two and four
\* bytes; the vocabulary has no lead byte of other forms).
CharAt(bytes) ==
    LET b == Head(bytes)
        n == Len(bytes)
    IN  IF b < 128 THEN [ok |-> TRUE, len |-> 1]
        ELSE IF b >= 194 /\ b <= 223
        THEN IF n >= 2 /\ IsCont(bytes[2])
             THEN [ok |-> TRUE, len |-> 2] ELSE [ok |-> FALSE, len |-> 1]
        ELSE IF b = 240
        THEN IF ~(n >= 2 /\ bytes[2] >= 144 /\ bytes[2] <= 191)
             THEN [ok |-> FALSE, len |-> 1]
             ELSE IF ~(n >= 3 /\ IsCont(bytes[3])) THEN [ok |-> FALSE, len |-> 2]
             ELSE IF ~(n >= 4 /\ IsCont(bytes[4])) THEN [ok |-> FALSE, len |-> 3]
             ELSE [ok |-> TRUE, len |-> 4]
        ELSE [ok |-> FALSE, len |-> 1]

\* String::from_utf8_lossy: every maximal ill-formed run becomes U+FFFD.
RECURSIVE FromUtf8Lossy(_)
FromUtf8Lossy(bytes) ==
    IF bytes = <<>> THEN <<>>
    ELSE LET c == CharAt(bytes)
         IN  <<IF c.ok THEN SubSeq(bytes, 1, c.len) ELSE Replacement>>
             \o FromUtf8Lossy(SubSeq(bytes, c.len + 1, Len(bytes)))

RECURSIVE JoinBytes(_)
JoinBytes(ids) ==
    IF ids = <<>> THEN <<>> ELSE TokenBytes(Head(ids)) \o JoinBytes(Tail(ids))

\* tokenizer.decode(ids, true) of a byte-level tokenizer: special tokens are
\* skipped, the bytes of the others are joined and read as UTF-8, lossily.
Decode(ids) == FromUtf8Lossy(JoinBytes(SelectSeq(ids, LAMBDA i : i # EosId)))

\* --------------------------- LoadedModel::generate and generate_stream
\* The two functions run on the same loaded model, prompt, max_tokens and
\* temperature; the sampler is seeded with 42 in both, so the id sampled at a
\* step is the same in both. The consumer of the stream keeps the receiver
\* and reads until the channel closes.
GenInputs ==
    [max_tokens : 0..MaxTokens, eos_token_id : {{}, {EosId}},
     sampled : [1..MaxTokens -> TokenIds]]

\* Both calls are made with the same inputs.
TxtStart ==
    /\ genRun.pc = "idle" /\ strRun.pc = "idle"
    /\ \E i \in GenInputs : genIn' = i
    /\ genRun' = [NoGenerate EXCEPT !.pc = "encode"]
    /\ strRun' = [NoStream EXCEPT !.pc = "encode"]

\* if Some(next_token) == self.eos_token_id
IsEosNever(tok) == FALSE

IsEos(tok) == tok \in genIn.eos_token_id

\* A finish_reason that names the token instead of the outcome.
FinishEos == "eos"

\* "stop".to_string(): the finish_reason of a generation ended by the EOS id.
FinishStop == "stop"

\* for _ in 0..max_tokens
LoopRuns(done) == done < genIn.max_tokens

\* &all_tokens[input_ids.len()..]
GeneratedTokens(all) == SubSeq(all, Len(PromptIds) + 1, Len(all))

\* generate: self.tokenizer.encode(prompt, true)?, all_tokens, the sampler.
GEncode ==
    /\ genRun.pc = "encode"
    /\ \E ok \in BOOLEAN :
         genRun' = IF ok
                   THEN [genRun EXCEPT !.pc = "loop", !.all_tokens = PromptIds]
                   ELSE [genRun EXCEPT !.pc = "done", !.res = "Err"]
    /\ UNCHANGED <<genIn, strRun>>

\* generate: one iteration of the loop (forward, sample, EOS test, push), or
\* its end.
GLoop ==
    /\ genRun.pc = "loop"
    /\ LET done == Len(GeneratedTokens(genRun.all_tokens))
           tok == genIn.sampled[done + 1]
       IN  IF LoopRuns(done)
           THEN \E ok \in BOOLEAN :
                  genRun' =
                    IF ~ok
                    THEN [genRun EXCEPT !.fwd = @ + 1, !.pc = "done",
                                        !.res = "Err"]
                    ELSE IF IsEos(tok)
                    THEN [genRun EXCEPT !.fwd = @ + 1, !.pc = "decode",
                                        !.finish_reason = FinishStop]
                    ELSE [genRun EXCEPT !.fwd = @ + 1,
                                        !.all_tokens = Append(@, tok),
                                        !.generated = @ + 1]
           ELSE genRun' = [genRun EXCEPT !.pc = "decode"]
    /\ UNCHANGED <<genIn, strRun>>

\* generate: decode the generated tokens, Ok(GenerationResult { .. }).
GDecode ==
    /\ genRun.pc = "decode"
    /\ \E ok \in BOOLEAN :
         genRun' =
           IF ok
           THEN [genRun EXCEPT !.pc = "done", !.res = "Ok",
                               !.text = Decode(GeneratedTokens(genRun.all_tokens))]
           ELSE [genRun EXCEPT !.pc = "done", !.res = "Err"]
    /\ UNCHANGED <<genIn, strRun>>

\* generate_stream: self.tokenizer.encode(prompt, true)?, all_tokens.
SEncode ==
    /\ strRun.pc = "encode"
    /\ \E ok \in BOOLEAN :
         strRun' = IF ok
                   THEN [strRun EXCEPT !.pc = "loop", !.all_tokens = PromptIds]
                   ELSE [strRun EXCEPT !.pc = "done", !.res = "Err"]
    /\ UNCHANGED <<genIn, genRun>>

ChatToken(content, finish_reason) ==
    [content |-> content, finish_reason |-> finish_reason]

\* generate_stream: one iteration up to the length test of the decoded text
\* (forward, sample, EOS test and final token, push, decode), or the end of
\* the loop and the final token of the length limit.
SLoop ==
    /\ strRun.pc = "loop"
    /\ LET done == Len(GeneratedTokens(strRun.all_tokens))
           tok == genIn.sampled[done + 1]
       IN  IF LoopRuns(done)
           THEN \E ok \in BOOLEAN, decOk \in BOOLEAN :
                  strRun' =
                    IF ~ok
                    THEN [strRun EXCEPT !.fwd = @ + 1, !.pc = "done",
                                        !.res = "Err"]
                    ELSE IF IsEos(tok)
                    THEN [strRun EXCEPT
                            !.fwd = @ + 1, !.pc = "done", !.res = "Ok",
                            !.sent = Append(@, ChatToken(<<>>, FinishStop))]
                    ELSE IF ~decOk
                    THEN [strRun EXCEPT !.fwd = @ + 1,
                                        !.all_tokens = Append(@, tok),
                                        !.pc = "done", !.res = "Err"]
                    ELSE [strRun EXCEPT
                            !.fwd = @ + 1,
                            !.all_tokens = Append(@, tok),
                            !.current_text =
                                Decode(GeneratedTokens(
                                    Append(strRun.all_tokens, tok))),
                            !.pc = "delta"]
           ELSE strRun' = [strRun EXCEPT
                             !.pc = "done", !.res = "Ok",
                             !.sent = Append(@, ChatToken(<<>>, "length"))]
    /\ UNCHANGED <<genIn, genRun>>

\* A length test that also lets an empty delta through.
TextGrewOrSame(len, prev_text_len) == len >= prev_text_len

\* if current_text.len() > prev_text_len
TextGrew(len, prev_text_len) == len > prev_text_len

\* generate_stream: if current_text.len() > prev_text_len { the delta is cut
\* out of current_text and sent }; the cut panics inside a character.
SDelta ==
    /\ strRun.pc = "delta"
    /\ LET delta == SliceFrom(strRun.current_text, strRun.prev_text_len)
       IN  strRun' =
             IF TextGrew(StrLen(strRun.current_text), strRun.prev_text_len)
             THEN IF delta.ok
                  THEN [strRun EXCEPT
                          !.prev_text_len = StrLen(strRun.current_text),
                          !.sent = Append(@, ChatToken(delta.str, None)),
                          !.pc = "loop"]
                  ELSE [strRun EXCEPT !.pc = "done", !.res = "Panic"]
             ELSE [strRun EXCEPT !.pc = "loop"]
    /\ UNCHANGED <<genIn, genRun>>

\* ------------- chat_completions_stream (OpenAI) and chat_stream (Ollama)
\* The events of a response stream. An optional content is the set of its
\* values; a `done` is the field of an Ollama object.
OpenAiChunk(role, content, finish_reason) ==
    [kind |-> "chunk", role |-> role, content |-> content,
     finish_reason |-> finish_reason, done |-> FALSE]
DoneMarker ==
    [kind |-> "[DONE]", role |-> None, content |-> {},
     finish_reason |-> None, done |-> FALSE]
OllamaObject(content, done) ==
    [kind |-> "object", role |-> "assistant", content |-> {content},
     finish_reason |-> None, done |-> done]
\* The content of the Ollama error object, format!("Error: {}", e).
ErrorText == <<<<69>>>>

\* The event an adapter makes of a ChatToken.
EventOf(api, token) ==
    IF api = "openai"
    THEN OpenAiChunk(None,
                     IF token.content = <<>> THEN {} ELSE {token.content},
                     token.finish_reason)
    ELSE OllamaObject(token.content, token.finish_reason # None)

\* A request arrives at one of the two handlers; the runtime is Ready or not
\* when the stream gets to chat_stream.
AdpStart ==
    /\ adp.pc = "idle"
    /\ strRun.pc = "idle"
    /\ \E api \in Apis, ready \in BOOLEAN :
         adp' = [NoAdapter EXCEPT !.pc = IF api = "openai" THEN "role" ELSE "call",
                                  !.api = api, !.ready = ready]
    /\ UNCHANGED txtVars

\* chat_completions_stream: yield the initial chunk with the role.
AdpRole ==
    /\ adp.pc = "role"
    /\ adp' = [adp EXCEPT !.pc = "call",
                          !.events = Append(@, OpenAiChunk("assistant", {}, None))]
    /\ UNCHANGED txtVars

\* What chat_completions_stream yields after the match on chat_stream.
OpenAiTailOnOk(ok) == IF ok THEN <<DoneMarker>> ELSE <<>>

OpenAiTail(ok) == <<DoneMarker>>

\* What the Err arm of the match yields.
ErrArm(api) ==
    IF api = "openai" THEN <<>> ELSE <<OllamaObject(ErrorText, TRUE)>>

\* runtime_guard.chat_stream(chat_request).await: Ok(rx) with the producer
\* spawned on generate_stream, or the error of a runtime that is not Ready.
AdpCall ==
    /\ adp.pc = "call"
    /\ IF adp.ready
       THEN /\ \E i \in GenInputs : genIn' = i
            /\ strRun' = [NoStream EXCEPT !.pc = "encode"]
            /\ adp' = [adp EXCEPT !.pc = "recv"]
       ELSE /\ adp' = [adp EXCEPT !.pc = "tail",
                                  !.events = @ \o ErrArm(adp.api)]
            /\ UNCHANGED <<genIn, strRun>>
    /\ genRun' = genRun

\* while let Some(token) = rx.recv().await { yield .. }: the next token of
\* the channel, or the end of the loop once the sender is gone.
AdpRecv ==
    /\ adp.pc = "recv"
    /\ IF adp.read < Len(strRun.sent)
       THEN adp' = [adp EXCEPT
                      !.read = @ + 1,
                      !.events = Append(@, EventOf(adp.api,
                                                   strRun.sent[adp.read + 1]))]
       ELSE /\ strRun.pc = "done"
            /\ adp' = [adp EXCEPT !.pc = "tail"]
    /\ UNCHANGED txtVars

\* The rest of the stream block; the stream ends after it.
AdpTail ==
    /\ adp.pc = "tail"
    /\ adp' = [adp EXCEPT
                 !.pc = "end",
                 !.events = @ \o (IF adp.api = "openai"
                                  THEN OpenAiTail(adp.ready) ELSE <<>>)]
    /\ UNCHANGED txtVars

\* ------------------------------------------------------------ Sampler
\* f32::max: a NaN argument is ignored.
FMax(a, b) ==
    IF a.k = "nan" THEN b
    ELSE IF b.k = "nan" THEN a
    ELSE IF Gt(b, a) THEN b ELSE a

\* Sampler::new: the temperature is floored, the state is the seed. The
\* temperature is kept in thousandths and top_p in tenths.
SamplerNewUnseeded(i, temperature, top_p, seed) ==
    [pc |-> "ready",
     temperature |-> FMax(temperature, Fin(TemperatureMin)),
     top_p |-> top_p, rng_seed |-> Bits(seed), rng_state |-> Bits(seed + i),
     n |-> 0, tok |-> NoToken]

SamplerNew(i, temperature, top_p, seed) ==
    [pc |-> "ready",
     temperature |-> FMax(temperature, Fin(TemperatureMin)),
     top_p |-> top_p, rng_seed |-> Bits(seed), rng_state |-> Bits(seed),
     n |-> 0, tok |-> NoToken]

\* x / self.temperature. A finite logit v stands for v * ln 2.
Scaled(x, t) == IF x.k = "fin" THEN Fin((x.v * 1000) \div t.v) ELSE x

\* scaled.iter().cloned().fold(f32::NEG_INFINITY, f32::max)
RECURSIVE MaxLogit(_, _)
MaxLogit(xs, acc) ==
    IF xs = <<>> THEN acc ELSE MaxLogit(Tail(xs), FMax(acc, Head(xs)))

\* (x - max_logit).exp(): a NaN for a NaN and for -inf - -inf, else a
\* multiple of 2^-ExpBits, 0 below that.
ExpOf(x, m) ==
    IF x.k = "nan" \/ (x.k = "ninf" /\ m.k = "ninf") THEN NaN
    ELSE IF x.k = "ninf" \/ m.v - x.v > ExpBits THEN Fin(0)
    ELSE Fin(2^(ExpBits - (m.v - x.v)))

RECURSIVE SumOf(_)
SumOf(ws) == IF ws = <<>> THEN 0 ELSE Head(ws) + SumOf(Tail(ws))

\* The softmax of sample: probs, each exp[i] / sum. One NaN in exp makes the
\* sum and so every probability a NaN; otherwise the probabilities are kept
\* as the weights w[i], standing for w[i] / SumOf(w).
Softmax(logits, t) ==
    LET scaled == [i \in 1..Len(logits) |-> Scaled(logits[i], t)]
        m == MaxLogit(scaled, NegInf)
        exp == [i \in 1..Len(logits) |-> ExpOf(scaled[i], m)]
    IN  IF \E i \in 1..Len(logits) : exp[i].k = "nan"
        THEN [nan |-> TRUE, w |-> [i \in 1..Len(logits) |-> 0]]
        ELSE [nan |-> FALSE, w |-> [i \in 1..Len(logits) |-> exp[i].v]]

\* The three xorshift steps of random_f32 on the 64-bit state.
Xor(a, b) == (a \ b) \cup (b \ a)
Shl(a, k) == {i + k : i \in {j \in a : j + k < RngWidth}}
Shr(a, k) == {i - k : i \in {j \in a : j >= k}}
Xorshift(st) ==
    LET a == Xor(st, Shl(st, 13))
        b == Xor(a, Shr(a, 7))
    IN  Xor(b, Shl(b, 17))

\* rng_state / u64::MAX as a fraction of 2^RandBits: the leading bits.
RECURSIVE Leading(_, _)
Leading(st, cnt) ==
    IF cnt = 0 THEN 0
    ELSE 2 * Leading(st, cnt - 1)
         + (IF RngWidth - cnt \in st THEN 1 ELSE 0)

\* The index order of indexed.sort_by(|a, b| b.1.partial_cmp(&a.1).unwrap()):
\* descending probability, equal probabilities in index order.
SortedDesc(w) ==
    LET before(i, j) == w[i] > w[j] \/ (w[i] = w[j] /\ i < j)
        rank(i) == 1 + Cardinality({j \in 1..Len(w) : before(j, i)})
    IN  [k \in 1..Len(w) |-> CHOOSE i \in 1..Len(w) : rank(i) = k]

\* cumsum after the first k entries of ws.
Cumsum(ws, k) == SumOf(SubSeq(ws, 1, k))

Token(id) == [k |-> "tok", id |-> id]
Panic == [k |-> "panic", id |-> 0]

\* A cutoff that asks for more than top_p.
CandidatesStrict(w, top_p) ==
    LET indexed == SortedDesc(w)
        sorted == [k \in 1..Len(w) |-> w[indexed[k]]]
        reach == {k \in 1..Len(w) : Cumsum(sorted, k) * 10 > top_p.v * SumOf(w)}
        cutoff_idx == IF reach = {} THEN Len(w)
                      ELSE CHOOSE k \in reach : \A j \in reach : k <= j
    IN  SubSeq(indexed, 1, cutoff_idx)

\* candidates = &indexed[..cutoff_idx]: the sorted indices up to the first
\* one at which cumsum >= self.top_p, all of them when there is none.
Candidates(w, top_p) ==
    LET indexed == SortedDesc(w)
        sorted == [k \in 1..Len(w) |-> w[indexed[k]]]
        reach == {k \in 1..Len(w) : Cumsum(sorted, k) * 10 >= top_p.v * SumOf(w)}
        cutoff_idx == IF reach = {} THEN Len(w)
                      ELSE CHOOSE k \in reach : \A j \in reach : k <= j
    IN  SubSeq(indexed, 1, cutoff_idx)

\* sample_top_p, with the draw r: the sort panics when it compares two NaN.
SampleTopP(probs, top_p, r) ==
    LET len == Len(probs.w)
    IN  IF probs.nan
        THEN IF len >= 2 THEN Panic ELSE Token(len - 1)
        ELSE
        LET candidates == Candidates(probs.w, top_p)
            kept == [k \in 1..Len(candidates) |-> probs.w[candidates[k]]]
            sum == SumOf(kept)
            hit == {k \in 1..Len(kept) : r * sum < Cumsum(kept, k) * 2^RandBits}
        IN  IF hit = {} THEN Token(candidates[Len(candidates)] - 1)
            ELSE Token(candidates[CHOOSE k \in hit : \A j \in hit : k <= j] - 1)

\* sample_multinomial, with the draw r.
SampleMultinomial(probs, r) ==
    LET len == Len(probs.w)
        total == SumOf(probs.w)
        hit == {k \in 1..len : r * total < Cumsum(probs.w, k) * 2^RandBits}
    IN  IF probs.nan \/ hit = {} THEN Token(len - 1)
        ELSE Token((CHOOSE k \in hit : \A j \in hit : k <= j) - 1)

\* A test that sends top_p = 1.0 to the nucleus branch as well.
UsesTopPLoose(smp) == ~Gt(smp.top_p, Fin(10))

\* if self.top_p < 1.0
UsesTopP(smp) == Gt(Fin(10), smp.top_p)

\* Sampler::sample: the token, or the panic, and the state of the generator
\* after the one draw of a call that got to it.
Sample(smp, logits) ==
    LET probs == Softmax(logits, smp.temperature)
        st == Xorshift(smp.rng_state)
        r == Leading(st, RandBits)
        tok == IF UsesTopP(smp) THEN SampleTopP(probs, smp.top_p, r)
               ELSE SampleMultinomial(probs, r)
    IN  IF tok.k = "panic"
        THEN [smp EXCEPT !.pc = "panicked", !.tok = tok, !.n = @ + 1]
        ELSE [smp EXCEPT !.rng_state = st, !.tok = tok, !.n = @ + 1]

Temperatures == {Fin(0), Fin(500), Fin(1000)}
TopPs == {Fin(5), Fin(9), Fin(10)}
RngSeeds == {0, 42}
LogitValues == {NaN, NegInf, Fin(0), Fin(2)}
Logits == [1..VocabSize -> LogitValues]

\* Two samplers are created with the same temperature, top_p and seed.
SmpNew ==
    /\ \A i \in SamplerIds : samplers[i].pc = "none"
    /\ \E t \in Temperatures, p \in TopPs, seed \in RngSeeds :
         samplers' = [i \in SamplerIds |-> SamplerNew(i, t, p, seed)]
    /\ fed' = fed

\* The next logits vector of the sequence both samplers are fed.
SmpFeed ==
    /\ fed.n < MaxSamples
    /\ \A i \in SamplerIds : samplers[i].pc = "ready" /\ samplers[i].n = fed.n
    /\ \E l \in Logits : fed' = [n |-> fed.n + 1, logits |-> l]
    /\ samplers' = samplers

\* sampler.sample(&last_logits) on one of the two.
SmpSample(i) ==
    /\ samplers[i].pc = "ready"
    /\ samplers[i].n < fed.n
    /\ samplers' = [samplers EXCEPT ![i] = Sample(samplers[i], fed.logits)]
    /\ fed' = fed

\* ----------------------------------------------------------- specifications
Step(t) ==
    \/ LoadModel(t)
    \/ UnloadModel(t)
    \/ Chat(t)
    \/ Stream(t)
    \/ Disconnect(t)
    \/ Producer(t)

\* Two client tasks calling the manager and the chat handlers concurrently.
Menu == LoadCalls \cup UnloadCalls \cup ChatCalls({MaxTokens})
            \cup StreamCalls({MaxTokens})

Next ==
    /\ \E t \in Pair : StartAny(t, Menu, MaxCalls) \/ Step(t)
    /\ UNCHANGED <<imgVars, txtVars, cache, smpVars, adp>>

Spec == Init /\ [][Next]_vars

\* A chat client beside an operator: t1 sends chat requests, streamed or not,
\* while t2 loads, unloads and sends chat requests of its own.
ServeMenu(t) ==
    CASE t = "t1" -> ChatCalls({MaxTokens}) \cup StreamCalls({MaxTokens})
      [] t = "t2" -> LoadCalls \cup UnloadCalls \cup ChatCalls({MaxTokens})

ServeNext ==
    /\ \E t \in Pair : StartAny(t, ServeMenu(t), MaxCalls) \/ Step(t)
    /\ UNCHANGED <<imgVars, txtVars, cache, smpVars, adp>>

ServeSpec == Init /\ [][ServeNext]_vars

\* One client whose streamed request asks for more tokens than the channel
\* holds, and who reads the stream, stops reading it or goes away. The tokio
\* scheduler polls the spawned producer whenever it can run; nothing obliges
\* the client to go on.
StallTokens == ChanCap + 1
StallMenu == {[o |-> "stream", n |-> "A", m |-> StallTokens]}

\* load_model on a runtime that holds no model.
ColdLoad(t) ==
    \/ LmCurLock(t) \/ LmCurChk(t) \/ LmUlLock(t) \/ LmUlChk(t)
    \/ LmLdLock(t) \/ LmLdBegin(t) \/ LmLdMl(t) \/ LmLdFin(t)
    \/ LmSetLock(t) \/ LmSet(t)

StallNext ==
    /\ \/ StartAny("t1", StallMenu, 1)
       \/ ColdLoad("t1")
       \/ Stream("t1")
       \/ Stall("t1")
       \/ Disconnect("t1")
       \/ Producer("t1")
    /\ UNCHANGED <<imgVars, txtVars, cache, smpVars, adp>>

StallFairSpec ==
    /\ Init
    /\ [][StallNext]_vars
    /\ WF_coreVars(Producer("t1"))

\* One owner of the runtime calling load and unload on it directly, and
\* AppState::unload_model in between.
RtCalls == MaxCalls + 2

RtNext ==
    /\ \/ RtStart("t1", RtCalls)
       \/ RtLoadBegin("t1")
       \/ RtLoadFin("t1")
       \/ RtUnload("t1", RtCalls)
       \/ StartAny("t1", UnloadCalls, RtCalls)
       \/ UnloadModel("t1")
    /\ UNCHANGED <<imgVars, txtVars, cache, smpVars, adp>>

RtSpec == Init /\ [][RtNext]_vars

\* An operator beside any client: t1 loads and unloads, t2 makes any call.
ManageMenu(t) ==
    CASE t = "t1" -> LoadCalls \cup UnloadCalls
      [] t = "t2" -> Menu

ManageNext ==
    /\ \E t \in Pair : StartAny(t, ManageMenu(t), MaxCalls) \/ Step(t)
    /\ UNCHANGED <<imgVars, txtVars, cache, smpVars, adp>>

ManageSpec == Init /\ [][ManageNext]_vars

\* One client task making chat requests of every length, one after the other.
GenMenu == ChatCalls(0..MaxTokens) \cup StreamCalls(0..MaxTokens)

GenNext ==
    /\ \/ StartAny("t1", GenMenu, MaxCalls)
       \/ LoadModel("t1")
       \/ Chat("t1")
       \/ Stream("t1")
       \/ Disconnect("t1")
       \/ Producer("t1")
    /\ UNCHANGED <<imgVars, txtVars, cache, smpVars, adp>>

GenSpec == Init /\ [][GenNext]_vars

\* Three clients with a role each: an operator that loads model A and unloads
\* it, a chat client of model A, and a second operator that unloads. The tokio
\* scheduler polls every task that can run, so every started call keeps
\* taking steps; nothing obliges a client to make a further call.
SwapMenu(t) ==
    CASE t = "t1" -> {[o |-> "load", n |-> "A", m |-> 0]} \cup UnloadCalls
      [] t = "t2" -> {[o |-> "chat", n |-> "A", m |-> 1]}
      [] t = "t3" -> UnloadCalls
SwapCalls == MaxCalls + 2

Call(t) == LoadModel(t) \/ UnloadModel(t) \/ Chat(t)

SwapNext ==
    /\ \E t \in Tasks : StartAny(t, SwapMenu(t), SwapCalls) \/ Call(t)
    /\ UNCHANGED <<imgVars, txtVars, cache, smpVars, adp>>

SwapFairSpec ==
    /\ Init
    /\ [][SwapNext]_vars
    /\ \A t \in Tasks : WF_coreVars(Call(t))

\* The decode cache (the Cache of a Llama model, the key/value state inside
\* a Phi model) is a field of the loaded model: LoadedModel::load builds it,
\* dropping the model drops it, and every LoadedModel::forward locks it and
\* hands it to the backend, which reads it and adds to it. The cache is kept
\* as the set of those whose forward passes wrote into it: the running call
\* of a task, or "old" for a call that has returned.
CacheAfter ==
    IF lastOp' # lastOp /\ lastOp' \in {"load_ok", "unloaded"} THEN {}
    ELSE IF \E t \in Tasks : fwd'[t] > fwd[t]
    THEN cache \cup {t \in Tasks : fwd'[t] > fwd[t]}
    ELSE IF \E t \in cache \cap Tasks : pc[t] = "idle" /\ pc'[t] # "idle"
    THEN {IF w \in Tasks /\ pc[w] = "idle" /\ pc'[w] # "idle" THEN "old" ELSE w :
             w \in cache}
    ELSE cache

\* Two clients sending chat requests, streamed or not, with the cache.
CacheMenu == ChatCalls({MaxTokens}) \cup StreamCalls({MaxTokens})

CacheNext ==
    /\ \E t \in Pair :
          \/ StartAny(t, CacheMenu, MaxCalls)
          \/ LoadModel(t)
          \/ Chat(t)
          \/ Stream(t)
          \/ Disconnect(t)
          \/ Producer(t)
    /\ cache' = CacheAfter
    /\ UNCHANGED <<imgVars, txtVars, smpVars, adp>>

CacheSpec == Init /\ [][CacheNext]_vars

\* One client sending its chat requests one after the other, with the cache.
CacheSeqNext ==
    /\ \/ StartAny("t1", GenMenu, MaxCalls)
       \/ LoadModel("t1")
       \/ Chat("t1")
       \/ Stream("t1")
       \/ Disconnect("t1")
       \/ Producer("t1")
    /\ cache' = CacheAfter
    /\ UNCHANGED <<imgVars, txtVars, smpVars, adp>>

CacheSeqSpec == Init /\ [][CacheSeqNext]_vars

\* One image request handed to the pipeline.
ImgNext == Generate("r1") /\ UNCHANGED <<coreVars, txtVars, cache, smpVars, adp>>

ImgSpec == Init /\ [][ImgNext]_vars

\* Two clients calling generate on the same pipeline at the same time, each
\* with a request of one denoising step and any seed.
PairRequests ==
    {q \in ImageGenRequests :
        /\ q.width = 1024 /\ q.height = 1024 /\ q.steps = 1
        /\ q.guidance_scale = Fin(50) /\ q.negative_prompt = "text"}

ImgPairNext ==
    /\ \E r \in ImgReqs : ImgStartIn(r, PairRequests) \/ GenerateInternal(r)
    /\ UNCHANGED <<coreVars, txtVars, cache, smpVars, adp>>

ImgPairSpec == Init /\ [][ImgPairNext]_vars

\* generate and generate_stream called with the same inputs.
TxtNext ==
    /\ TxtStart \/ GEncode \/ GLoop \/ GDecode \/ SEncode \/ SLoop \/ SDelta
    /\ UNCHANGED <<coreVars, imgVars, cache, smpVars, adp>>

TxtSpec == Init /\ [][TxtNext]_vars

\* A streamed chat request through either adapter, read to its end, with
\* the producer running generate_stream beside it.
AdpNext ==
    /\ \/ AdpStart \/ AdpRole \/ AdpCall \/ AdpRecv \/ AdpTail
       \/ (SEncode \/ SLoop \/ SDelta) /\ adp' = adp
    /\ UNCHANGED <<coreVars, imgVars, cache, smpVars>>

AdpSpec == Init /\ [][AdpNext]_vars

\* Two samplers fed the same logits, one vector after the other.
SmpNext ==
    /\ SmpNew \/ SmpFeed \/ \E i \in SamplerIds : SmpSample(i)
    /\ UNCHANGED <<coreVars, imgVars, txtVars, cache, adp>>

SmpSpec == Init /\ [][SmpNext]_vars

\* ------------------------------------------------------------------ claims
LmPcs == {"lm_cur_lock", "lm_cur_chk", "lm_fast_lock", "lm_fast_chk",
          "lm_ul_lock", "lm_ul_chk", "lm_ul_ml", "lm_ul_do", "lm_ld_lock",
          "lm_ld_begin", "lm_ld_ml", "lm_ld_fin", "lm_set_lock", "lm_set"}
UmPcs == {"um_rt_lock", "um_chk", "um_ml", "um_do", "um_cm_lock", "um_set"}

\* C1: when the only two calls made are two concurrent load_model("A") calls
\* that have both returned without a load failure, Runtime::load was invoked
\* exactly once for A, both returned Ok and the status is Ready.
C1_OneLoadForConcurrentCalls ==
    ( /\ calls = 2
      /\ \A t \in Pair :
           /\ pc[t] = "idle" /\ op[t] = "load" /\ name[t] = "A"
           /\ res[t] # "LoadErr"
      /\ conc )
    => ( /\ loadCalls["A"] = 1
         /\ \A t \in Pair : res[t] = "Ok"
         /\ status = "Ready" )

\* A load_model call is in the middle of its swap: its unload block is over
\* and its write of the selected-name cell has not begun.
InSwap(t) ==
    pc[t] \in {"lm_ld_lock", "lm_ld_begin", "lm_ld_ml", "lm_ld_fin", "lm_set_lock"}

\* C2: unload, load and the update of the selected name are one critical
\* section: while a load_model call is between them, no other task holds the
\* runtime lock or the selected-name cell.
C2_SwapIsOneCriticalSection ==
    \A t \in Tasks, u \in Tasks :
        (t # u /\ InSwap(t)) => (~Holds(locks, "rt", u) /\ ~Holds(locks, "cm", u))

\* C3: when no load_model or unload_model call is in progress and the status
\* is Ready, current_model names the model the runtime holds.
C3_OneConsistentActiveModel ==
    ( /\ \A t \in Tasks : pc[t] \notin LmPcs \cup UmPcs
      /\ status = "Ready" )
    => current = model

StatusEdges ==
    {<<"Unloaded", "Loading">>, <<"Error", "Loading">>, <<"Loading", "Ready">>,
     <<"Loading", "Error">>, <<"Ready", "Unloaded">>}

\* C4: every change of the status follows an edge of the status machine, and
\* Runtime::load is never started while the status is Ready or Loading.
C4_StatusMachine ==
    [][ /\ (status' # status => <<status, status'>> \in StatusEdges)
        /\ (loadCalls' # loadCalls => status \notin {"Ready", "Loading"}) ]_vars

\* C5: after Runtime::load returned an error, the status is Error until the
\* next load or unload.
C5_FailedLoadLeavesError == lastOp = "load_err" => status = "Error"

\* C6: a chat or chat_stream call made while the status is not Ready returns
\* the error at once: no forward pass, no producer task, no load, and status,
\* model slot and config as they were.
C6_NotReadyFails ==
    [][ \A t \in Tasks :
          ( /\ status # "Ready"
            /\ \/ pc[t] = "ch_chk" /\ pc'[t] # "ch_chk"
               \/ pc[t] = "st_call" /\ pc'[t] # "st_call" /\ res'[t] # "Dropped" )
          => ( /\ res'[t] = "NotLoaded"
               /\ pc'[t] = "idle"
               /\ pc'[Prod(t)] = pc[Prod(t)]
               /\ UNCHANGED <<fwd, gen, status, model, config, loadCalls>> ) ]_vars

C6_Witness ==
    \E t \in Tasks :
        /\ op[t] \in {"chat", "stream"} /\ pc[t] = "idle"
        /\ res[t] = "NotLoaded" /\ status # "Ready" /\ fwd[t] = 0

\* A forward pass of the generation of task t is still to be executed.
PassesRemain(t) ==
    \/ pc[t] = "ch_loop" /\ gen[t] < maxTok[t]
    \/ pc[Prod(t)] = "p_fwd" /\ gen[t] < maxTok[t]

\* C7: generations hold the runtime lock for read until their last forward
\* pass, so while load_model or unload_model holds the runtime writer no
\* generation has a forward pass still to run.
C7_NoWriterDuringGeneration ==
    locks["rt"].w # None => \A t \in Tasks : ~PassesRemain(t)

WaitsRtWriter(t) == \E i \in 1..Len(locks["rt"].q) : locks["rt"].q[i] = <<t, "w">>

\* C8: a call that waits for the runtime writer lock is not overtaken by a
\* reader that asks later, and it acquires the writer in the end.
C8_WaitingWriterAcquires ==
    /\ [][ \A t \in Tasks :
             (WaitsRtWriter(t) /\ WaitsRtWriter(t)')
             => locks["rt"].r' \subseteq locks["rt"].r \cup
                  {locks["rt"].q[i][1] : i \in
                     {j \in 1..Len(locks["rt"].q) :
                        \E k \in j..Len(locks["rt"].q) :
                            locks["rt"].q[k] = <<t, "w">>}} ]_vars
    /\ \A t \in Tasks : WaitsRtWriter(t) ~> (locks["rt"].w = t)

\* C9: a stream read until the channel closes ends with a ChatToken that
\* carries a finish_reason.
C9_StreamEndsWithFinishReason ==
    \A t \in Tasks : res[t] = "StreamEnd" => lastFin[t] # None

\* C10: after the receiver was dropped the producer starts at most one
\* further forward pass.
C10_OneStepAfterDrop == \A t \in Tasks : fwdAfterDrop[t] <= 1

\* C11: an image request whose width or height is not divisible by 16 ends
\* with the dimension error before any forward pass: none of the text
\* encoder, of the transformer or of the VAE.
C11_DimensionsBeforeForward ==
    \A r \in ImgReqs :
        (img[r].pc = "done" /\ img[r].res = "InvalidDimensions")
        => (img[r].encFwd = 0 /\ img[r].trFwd = <<>> /\ img[r].vaeFwd = 0)

\* The transformer forward passes of n denoising steps, in order.
RECURSIVE StepPasses(_, _)
StepPasses(n, both) ==
    IF n = 0 THEN <<>>
    ELSE (IF both THEN <<"cond", "uncond">> ELSE <<"cond">>)
         \o StepPasses(n - 1, both)

\* C15: a successful image generation ran, per denoising step, the
\* conditional pass and then the unconditional one when guidance_scale > 1.0
\* and the negative prompt is not empty, and the conditional pass alone
\* otherwise; steps times that number in all.
C15_PassesPerStep ==
    \A r \in ImgReqs :
        (img[r].pc = "done" /\ img[r].res = "Ok")
        => img[r].trFwd =
             StepPasses(img[r].req.steps,
                        /\ img[r].req.negative_prompt = "text"
                        /\ img[r].req.guidance_scale.k = "fin"
                        /\ img[r].req.guidance_scale.v > 10)

C15_Witness ==
    \E r \in ImgReqs :
        /\ img[r].pc = "done" /\ img[r].res = "Ok"
        /\ img[r].req.steps = MaxSteps
        /\ img[r].req.guidance_scale = Fin(50)
        /\ img[r].req.negative_prompt = "text"
        /\ Len(img[r].trFwd) = 2 * MaxSteps

\* No sampled id of the first n steps is the EOS id of the model.
NoEosIn(n) == \A i \in 1..n : genIn.sampled[i] \notin genIn.eos_token_id

\* C12: when the EOS id is not sampled, generate with max_tokens = N runs N
\* decode steps and reports N tokens with finish_reason "length", and
\* generate_stream ends with a final token whose finish_reason is "length",
\* unless the tokenizer or the backend returned an error to the call.
C12_LengthWithoutEos ==
    NoEosIn(genIn.max_tokens) =>
        /\ (genRun.pc = "done" /\ genRun.res # "Err") =>
              /\ genRun.fwd = genIn.max_tokens
              /\ genRun.generated = genIn.max_tokens
              /\ genRun.finish_reason = "length"
        /\ (strRun.pc = "done" /\ strRun.res # "Err") =>
              /\ strRun.fwd = genIn.max_tokens
              /\ strRun.sent # <<>>
              /\ strRun.sent[Len(strRun.sent)].finish_reason = "length"

\* The EOS id is sampled at step k + 1 and at no step before.
EosAfter(k) ==
    /\ k < genIn.max_tokens
    /\ NoEosIn(k)
    /\ genIn.sampled[k + 1] \in genIn.eos_token_id

\* C13: when the first k < max_tokens sampled ids are not the EOS id and the
\* next one is, a generation that gets that far stops there: k tokens are
\* counted and decoded, the finish_reason is "stop", and the forward pass that
\* led to the EOS id is the last one.
C13_StopsAtEos ==
    \A k \in 0..MaxTokens :
        EosAfter(k) =>
            /\ genRun.fwd <= k + 1
            /\ strRun.fwd <= k + 1
            /\ genRun.res = "Ok" =>
                 /\ genRun.generated = k
                 /\ genRun.fwd = k + 1
                 /\ genRun.finish_reason = "stop"
                 /\ genRun.text =
                      Decode([i \in 1..k |-> genIn.sampled[i]])
            /\ strRun.res = "Ok" =>
                 /\ strRun.fwd = k + 1
                 /\ Len(GeneratedTokens(strRun.all_tokens)) = k
                 /\ strRun.sent[Len(strRun.sent)] = ChatToken(<<>>, "stop")

C13_Witness ==
    /\ EosAfter(1)
    /\ genRun.res = "Ok" /\ genRun.generated = 1
    /\ strRun.res = "Ok" /\ strRun.fwd = 2

\* The contents of the ChatTokens of a stream, concatenated in order.
RECURSIVE Contents(_)
Contents(toks) ==
    IF toks = <<>> THEN <<>> ELSE Head(toks).content \o Contents(Tail(toks))

\* C14: when chat() answered and the stream of chat_stream for the same
\* inputs has ended without an error of the tokenizer or of the backend, the
\* streamed contents concatenated are the content chat() returned.
C14_StreamEqualsChat ==
    ( /\ genRun.res = "Ok"
      /\ strRun.pc = "done" /\ strRun.res # "Err" )
    => Contents(strRun.sent) = genRun.text

Malformed(logits) ==
    \/ \E i \in 1..Len(logits) : logits[i] = NaN
    \/ \A i \in 1..Len(logits) : logits[i] = NegInf

\* C18: a sampler fed malformed logits does not panic: it returns the id of
\* the last candidate.
C18_MalformedLogitsDegrade ==
    \A i \in SamplerIds :
        (samplers[i].n = fed.n /\ fed.n > 0 /\ Malformed(fed.logits))
        => samplers[i].tok = Token(VocabSize - 1)

\* C16: the cache a forward pass of a call reads (and extends) holds nothing
\* written by another call that is running at the same time.
C16_CacheLocalToCall ==
    [][ \A t \in Tasks :
          fwd'[t] > fwd[t] => (cache \cap Tasks) \subseteq {t} ]_vars

ChatPcs == {"ch_chk", "ch_ml_lock", "ch_gen", "ch_loop", "ch_dec",
            "st_call", "st_recv"}
ProdPcs == {"p_ml_lock", "p_start", "p_fwd", "p_send", "p_send_fin"}

\* The chat() or chat_stream() call of task t, its producer included, takes
\* a step.
GenerationStep(t) ==
    \/ /\ pc[t] \in ChatPcs
       /\ <<pc'[t], fwd'[t], gen'[t], res'[t]>> # <<pc[t], fwd[t], gen[t], res[t]>>
       /\ res'[t] # "Dropped"
    \/ /\ pc[Prod(t)] \in ProdPcs
       /\ <<pc'[Prod(t)], fwd'[t], gen'[t], chan'[t]>>
            # <<pc[Prod(t)], fwd[t], gen[t], chan[t]>>
       /\ pc'[t] = pc[t]

\* C19: no step of a chat or chat_stream call, and so none of a call that
\* fails with a tokenization, forward-pass or decode error, changes the
\* runtime status, the model slot, the stored config or the selected name.
C19_FailedChatKeepsState ==
    [][ \A t \in Tasks :
          GenerationStep(t) => UNCHANGED <<status, model, config, current>> ]_vars

C19_Witness ==
    \E t \in Tasks :
        /\ pc[t] = "idle" /\ op[t] = "chat" /\ res[t] = "GenErr" /\ fwd[t] = 1
        /\ status = "Ready" /\ model = name[t] /\ current = name[t]

FastPcs == {"lm_cur_lock", "lm_cur_chk", "lm_fast_lock", "lm_fast_chk"}

\* C20: a load_model call that finds current_model equal to its name and the
\* status Ready returns Ok there: it has not asked for the runtime writer, it
\* calls neither unload nor load, and status, model, config and selected name
\* stay as they are.
C20_FastPathReadOnly ==
    /\ [](\A t \in Tasks :
            pc[t] \in FastPcs => (locks["rt"].w # t /\ ~WaitsRtWriter(t)))
    /\ [][ \A t \in Tasks :
             ( /\ pc[t] = "lm_fast_chk" /\ pc'[t] # "lm_fast_chk"
               /\ current = name[t] /\ status = "Ready" )
             => ( /\ pc'[t] = AfterLoad(t)
                  /\ op[t] = "load" => res'[t] = "Ok"
                  /\ locks'["rt"].w # t /\ ~WaitsRtWriter(t)'
                  /\ UNCHANGED <<status, model, config, current, loadCalls,
                                 lastOp>> ) ]_vars

C20_Witness ==
    /\ calls = 2
    /\ \A t \in Pair : pc[t] = "idle" /\ op[t] = "load" /\ name[t] = "A"
                       /\ res[t] = "Ok"
    /\ loadCalls["A"] = 1 /\ status = "Ready" /\ current = "A"

\* C21: once the consumer of a stream has stopped taking tokens, having
\* dropped the receiver or keeping it without polling it, the producer task
\* ends, which drops its model guard.
C21_ProducerStops ==
    \A t \in Tasks :
        (TxAlive(t) /\ (~rxAlive[t] \/ pc[t] = "st_stalled"))
            ~> (~TxAlive(t) /\ ~Holds(locks, "ml", Prod(t)))

Unloaded == status = "Unloaded" /\ model = None /\ config = None

\* The step is a call of Runtime::unload made by the owner of the runtime.
DirectUnload(t) == op'[t] = "rt_unload" /\ calls' = calls + 1

\* C22: Runtime::unload on a runtime that is already unloaded returns Ok and
\* leaves status Unloaded, model slot and config empty, as does
\* AppState::unload_model, which does not call it then; and whatever the
\* state was, the runtime is unloaded after an unload, so that a second one
\* changes nothing.
C22_UnloadIdempotent ==
    [][ \A t \in Tasks :
          /\ DirectUnload(t) => (Unloaded' /\ res'[t] = "Ok")
          /\ (Unloaded /\ (DirectUnload(t) \/ pc[t] \in UmPcs))
             => /\ Unloaded'
                /\ (pc'[t] = "idle" => res'[t] = "Ok")
      ]_vars

C22_Witness ==
    /\ calls = 2 /\ op["t1"] = "rt_unload" /\ pc["t1"] = "idle"
    /\ res["t1"] = "Ok"
    /\ loadCalls = [n \in Registry |-> 0]
    /\ lastOp = "unloaded" /\ Unloaded

\* The sampler has sampled the logits vector it was fed last.
Sampled(i) ==
    samplers[i].pc = "ready" /\ samplers[i].n = fed.n /\ fed.n > 0

\* The indices (from 1) whose cumulative probability exceeds the draw r, a
\* fraction of 2^RandBits, in the distribution of weights w.
Exceeding(w, r) ==
    {k \in 1..Len(w) : Cumsum(w, k) * 2^RandBits > r * SumOf(w)}

\* The least draw that falls on index k.
DrawOn(w, k) ==
    (Cumsum(w, k - 1) * 2^RandBits + SumOf(w) - 1) \div SumOf(w)

\* C23: a sampler with top_p = 1.0 returns, for a probability vector without
\* NaN, the first index whose cumulative probability over the full softmax
\* exceeds its draw; and no token is excluded: every index whose probability
\* is at least 2^-RandBits is returned for some draw.
C23_TopPOneIsFullSoftmax ==
    \A i \in SamplerIds :
        (Sampled(i) /\ samplers[i].top_p = Fin(10)) =>
            LET probs == Softmax(fed.logits, samplers[i].temperature)
                r == Leading(samplers[i].rng_state, RandBits)
                ex == Exceeding(probs.w, r)
            IN  ~probs.nan =>
                  /\ ex # {}
                  /\ samplers[i].tok =
                        Token((CHOOSE k \in ex : \A j \in ex : k <= j) - 1)
                  /\ \A k \in 1..Len(probs.w) :
                        probs.w[k] * 2^RandBits >= SumOf(probs.w) =>
                            SampleMultinomial(probs, DrawOn(probs.w, k))
                                = Token(k - 1)

\* A sampler with top_p = 1.0 returned the second of three equally likely
\* tokens, on its second draw.
C23_Witness ==
    \E i \in SamplerIds :
        /\ Sampled(i) /\ samplers[i].top_p = Fin(10) /\ fed.n = 2
        /\ fed.logits = <<Fin(0), Fin(0), Fin(0)>>
        /\ samplers[i].tok = Token(1)

\* The probability mass of the indices in the sequence c, as a weight.
RECURSIVE Mass(_, _)
Mass(w, c) == IF c = <<>> THEN 0 ELSE w[Head(c)] + Mass(w, Tail(c))

\* C24: for 0 < top_p < 1.0 and a probability vector without NaN, the
\* candidates of sample_top_p are a prefix of the tokens in descending
\* probability, their mass is at least top_p, it is below top_p without the
\* last (the least likely) of them, and the token returned is one of them.
C24_NucleusIsSmallestPrefix ==
    \A i \in SamplerIds :
        (/\ Sampled(i)
         /\ Gt(Fin(10), samplers[i].top_p) /\ Gt(samplers[i].top_p, Fin(0))
         /\ ~Softmax(fed.logits, samplers[i].temperature).nan) =>
            LET w == Softmax(fed.logits, samplers[i].temperature).w
                p == samplers[i].top_p.v
                c == Candidates(w, samplers[i].top_p)
                in == {c[k] : k \in 1..Len(c)}
            IN  /\ c # <<>>
                /\ Cardinality(in) = Len(c)
                /\ \A k \in 1..(Len(c) - 1) : w[c[k]] >= w[c[k + 1]]
                /\ \A a \in in, b \in (1..Len(w)) \ in : w[a] >= w[b]
                /\ Mass(w, c) * 10 >= p * SumOf(w)
                /\ Mass(w, SubSeq(c, 1, Len(c) - 1)) * 10 < p * SumOf(w)
                /\ samplers[i].tok.k = "tok"
                /\ samplers[i].tok.id + 1 \in in

\* Two of three candidates were kept and the second one was returned.
C24_Witness ==
    \E i \in SamplerIds :
        /\ Sampled(i) /\ samplers[i].top_p = Fin(5)
        /\ ~Softmax(fed.logits, samplers[i].temperature).nan
        /\ Len(Candidates(Softmax(fed.logits, samplers[i].temperature).w,
                          samplers[i].top_p)) = 2
        /\ samplers[i].tok.k = "tok"
        /\ samplers[i].tok.id + 1 =
             Candidates(Softmax(fed.logits, samplers[i].temperature).w,
                        samplers[i].top_p)[2]

\* The events the adapter of api makes of the tokens toks, in order.
EventsOf(api, toks) == [k \in 1..Len(toks) |-> EventOf(api, toks[k])]

\* The tokens the producer of the adapter's request has sent.
Produced == IF adp.ready THEN strRun.sent ELSE <<>>

\* C25: an OpenAI stream read to its end is the role chunk, the chunks of
\* the producer's tokens in the order they were sent, and one "[DONE]"
\* event, the last one, also when chat_stream returned an error and when the
\* producer stopped early.
C25_OpenAiStreamShape ==
    (adp.api = "openai" /\ adp.pc = "end") =>
        adp.events = <<OpenAiChunk("assistant", {}, None)>>
                        \o EventsOf("openai", Produced) \o <<DoneMarker>>

\* Streams that ended after chat_stream failed, and after the producer
\* stopped on an error behind a token it had sent.
C25_Witness ==
    /\ adp.api = "openai" /\ adp.pc = "end"
    /\ adp.ready /\ strRun.res = "Err" /\ Len(strRun.sent) = 1
    /\ Len(adp.events) = 3

\* The objects of the stream that have done:true.
DoneObjects == {k \in 1..Len(adp.events) : adp.events[k].done}

\* C26: an Ollama stream read to its end has exactly one object with
\* done:true, the last one, also when the producer stopped without a token
\* that carries a finish_reason.
C26_OllamaStreamEndsDone ==
    (adp.api = "ollama" /\ adp.pc = "end") =>
        (adp.events # <<>> /\ DoneObjects = {Len(adp.events)})

\* C27: the finish_reason of the result of generate, and every finish_reason
\* present in a token sent by generate_stream, is "stop" or "length".
C27_FinishReasonValues ==
    /\ (genRun.pc = "done" /\ genRun.res = "Ok")
          => genRun.finish_reason \in {"stop", "length"}
    /\ \A k \in 1..Len(strRun.sent) :
          strRun.sent[k].finish_reason \in {None, "stop", "length"}

\* Both generations were ended by the EOS id after one token of text.
C27_Witness ==
    /\ genRun.pc = "done" /\ genRun.res = "Ok" /\ genRun.generated = 1
    /\ genRun.finish_reason = "stop"
    /\ strRun.pc = "done" /\ Len(strRun.sent) = 2
    /\ strRun.sent[2].finish_reason = "stop"

\* The generation of the chat request of task t is running on the weights
\* in the model slot.
Generating(t) ==
    \/ pc[t] \in {"ch_loop", "ch_dec"}
    \/ pc[Prod(t)] \in {"p_fwd", "p_send", "p_send_fin"}

\* C28: a chat request that names a model and generates is served by that
\* model: while its generation runs, the model slot holds the weights of the
\* name it asked for.
C28_ServedByRequestedModel ==
    \A t \in Tasks : Generating(t) => model = name[t]

\* C29: concurrent load_model and unload_model calls do not block each
\* other for good: every load_model and every unload_model call returns.
C29_ManagerCallsReturn ==
    \A t \in Tasks :
        (pc[t] \in LmPcs \cup UmPcs) ~> (pc[t] \notin LmPcs \cup UmPcs)

\* C30: the initial noise of an image request with a seed is drawn from the
\* device state that the request's own set_seed left, no other request
\* having reseeded the device or drawn from it in between.
C30_NoiseFromOwnSeed ==
    \A r \in ImgReqs :
        (img[r].noise # {} /\ img[r].req.seed # None)
            => img[r].noise = {Reseeded(img[r].req.seed)}

\* C31: the first forward pass of a generate or generate_stream call finds
\* the decode cache empty, with nothing in it that an earlier call on the
\* same loaded model wrote.
C31_CacheResetAtFirstPass ==
    [][ \A t \in Tasks :
          (fwd[t] = 0 /\ fwd'[t] = 1) => cache = {} ]_vars

\* The number of transformer forward passes of one denoising step of r.
PassesPerStep(r) == IF GuidanceOn(img[r].req, img[r].neg) THEN 2 ELSE 1

\* C32: a successful image generation makes exactly `steps` scheduler steps
\* and then exactly one VAE decode; the forward passes of a step start when
\* all earlier scheduler steps are done, a scheduler step is made when the
\* passes of its own step are done, the decode comes after the last step,
\* and with steps = 0 no transformer forward pass runs.
C32_StepsInSequence ==
    [][ \A r \in ImgReqs :
          /\ (Len(img'[r].trFwd) > Len(img[r].trFwd))
                => /\ img[r].step < img[r].req.steps
                   /\ Len(img[r].trFwd) \div PassesPerStep(r) = img[r].step
          /\ (img'[r].step > img[r].step)
                => /\ img'[r].step = img[r].step + 1
                   /\ Len(img[r].trFwd) = (img[r].step + 1) * PassesPerStep(r)
          /\ (img'[r].vaeFwd > img[r].vaeFwd)
                => (img[r].vaeFwd = 0 /\ img[r].step = img[r].req.steps)
          /\ (img'[r].pc = "done" /\ img'[r].res = "Ok")
                => /\ img'[r].step = img'[r].req.steps
                   /\ img'[r].vaeFwd = 1
                   /\ (img'[r].req.steps = 0 => img'[r].trFwd = <<>>) ]_vars

C32_Witness ==
    \E r \in ImgReqs :
        /\ img[r].pc = "done" /\ img[r].res = "Ok"
        /\ img[r].req.steps = MaxSteps /\ img[r].step = MaxSteps
        /\ img[r].vaeFwd = 1

\* The statements of load_model in program order.
LmOrder ==
    <<"lm_cur_lock", "lm_cur_chk", "lm_fast_lock", "lm_fast_chk",
      "lm_ul_lock", "lm_ul_chk", "lm_ul_ml", "lm_ul_do", "lm_ld_lock",
      "lm_ld_begin", "lm_ld_ml", "lm_ld_fin", "lm_set_lock", "lm_set">>

LmRank(p) == CHOOSE i \in 1..Len(LmOrder) : LmOrder[i] = p

\* C33: a load_model call only moves forward through its statements, so it
\* comes by its one runtime.unload() and its one runtime.load() at most once
\* each; Runtime::unload and Runtime::load are reached from these two places
\* only, and a failed load ends the call with the error, the selected name
\* as it was.
C33_NoRetryInLoadModel ==
    [][ \A t \in Tasks :
          /\ (pc[t] \in LmPcs /\ pc'[t] \in LmPcs /\ pc'[t] # pc[t])
                => LmRank(pc'[t]) > LmRank(pc[t])
          /\ (pc[t] \in LmPcs /\ pc'[t] # pc[t] /\ lastOp' = "unloaded"
                /\ status' = "Unloaded" /\ status = "Ready")
                => pc[t] = "lm_ul_do"
          /\ (pc[t] \in LmPcs /\ pc'[t] # pc[t] /\ loadCalls' # loadCalls)
                => /\ pc[t] = "lm_ld_begin"
                   /\ loadCalls'[name[t]] = loadCalls[name[t]] + 1
          /\ (pc[t] = "lm_ld_begin" /\ pc'[t] # pc[t] /\ lastOp' = "load_err")
                => /\ pc'[t] = "idle"
                   /\ res'[t] = "LoadErr"
                   /\ current' = current ]_vars

C33_Witness ==
    \E t \in Tasks :
        /\ op[t] = "load" /\ pc[t] = "idle" /\ res[t] = "LoadErr"
        /\ lastOp = "load_err" /\ status = "Loading"
        /\ current # None /\ current # name[t]

\* The producer of t is inside generate_stream, past the tokenizer.
InDecodeLoop(t) == pc[Prod(t)] \in {"p_fwd", "p_send", "p_send_fin"}

\* C34: while a producer task is inside its decode loop it holds the model
\* lock and the model slot holds a model that no step drops or replaces,
\* whether or not its consumer and the consumer's runtime guard still exist.
C34_ModelKeptForProducer ==
    [][ \A t \in Tasks :
          InDecodeLoop(t)
            => /\ Holds(locks, "ml", Prod(t))
               /\ model # None
               /\ model' = model ]_vars

\* An unload waiting for the model lock of a producer whose consumer has
\* gone and has given the runtime guard back.
C34_Witness ==
    \E t, u \in Tasks :
        /\ InDecodeLoop(t) /\ ~rxAlive[t] /\ ~Holds(locks, "rt", t)
        /\ pc[u] \in {"lm_ul_ml", "um_ml"}
        /\ \E i \in 1..Len(locks["ml"].q) : locks["ml"].q[i][1] = u

\* C35: a load_model call whose name is not in the registry goes no further
\* than the registry lookup: it never holds or awaits the runtime lock, none
\* of its steps changes the loaded model, the stored config, the runtime
\* status or the selected name, and it ends with the not-found error.
C35_UnknownNameTouchesNothing ==
    [][ \A t \in Tasks :
          (name[t] \notin Registry /\ pc[t] \in LmPcs)
            => /\ pc[t] \in {"lm_cur_lock", "lm_cur_chk"}
               /\ ~Holds(locks, "rt", t)
               /\ \A i \in 1..Len(locks["rt"].q) : locks["rt"].q[i][1] # t
               /\ (pc'[t] # pc[t])
                    => /\ UNCHANGED <<model, config, status, current>>
                       /\ pc'[t] \in {"lm_cur_lock", "lm_cur_chk", "idle"}
                       /\ (pc'[t] = "idle" => res'[t] = "NotFound") ]_vars

C35_Witness ==
    \E t \in Tasks :
        /\ op[t] = "load" /\ name[t] \notin Registry
        /\ pc[t] = "idle" /\ res[t] = "NotFound"
        /\ status = "Ready" /\ model # None /\ current = model

\* C36: a Ready runtime has a model in its slot, and an Unloaded runtime has
\* an empty slot and no stored config. The status is Loading from the first
\* statement of a load to its last, and unload makes its three assignments
\* in one step, so this holds in the states inside an operation as well.
C36_StatusMatchesSlot ==
    /\ status = "Ready" => model # None
    /\ status = "Unloaded" => (model = None /\ config = None)

\* An Unloaded runtime that has had a model, all calls returned.
C36_Witness ==
    /\ status = "Unloaded" /\ lastOp = "unloaded"
    /\ \E n \in Registry : loadCalls[n] > 0
    /\ \A t \in Tasks : pc[t] = "idle"

\* C37: the scheduler is used by one request at a time. A step that changes
\* it is either a request taking the free scheduler, which then is a new one
\* with that request's timesteps and no step made, or a step of the request
\* that holds it; and while a request holds it, the scheduler has made the
\* steps of that request and no others.
C37_SchedulerOneRequestAtATime ==
    [][ /\ \A r \in ImgReqs :
             (img'[r] # img[r] /\ scheduler' # scheduler)
               => \/ /\ scheduler.owner = None
                     /\ scheduler' = [owner |-> r,
                                      timesteps |-> img[r].req.steps,
                                      index |-> 0]
                  \/ /\ scheduler.owner = r
                     /\ scheduler'.owner \in {r, None}
                     /\ scheduler'.timesteps = scheduler.timesteps
        /\ \A r \in ImgReqs :
             scheduler.owner = r
               => /\ img[r].pc \in {"noise", "cond", "uncond", "step"}
                  /\ scheduler.index = img[r].step
                  /\ scheduler.timesteps = img[r].req.steps ]_vars

\* A request holding a new scheduler after another request made its step.
C37_Witness ==
    \E r, q \in ImgReqs :
        /\ r # q
        /\ img[q].pc = "done" /\ img[q].step = 1
        /\ scheduler.owner = r /\ scheduler.index = 0

\* C38: among the tokens generate_stream has sent, only the last one can
\* carry a finish_reason, and it then has empty content; every token without
\* a finish_reason has content that is not empty.
C38_OneFinalToken ==
    \A k \in 1..Len(strRun.sent) :
        IF strRun.sent[k].finish_reason # None
        THEN k = Len(strRun.sent) /\ strRun.sent[k].content = <<>>
        ELSE strRun.sent[k].content # <<>>

\* A stream of MaxTokens deltas ended by the token of the length limit.
C38_Witness ==
    /\ strRun.pc = "done" /\ strRun.res = "Ok"
    /\ Len(strRun.sent) = MaxTokens + 1
    /\ strRun.sent[MaxTokens + 1].finish_reason = "length"
    /\ strRun.sent[1].finish_reason = None

====
